---- MODULE Spec2Model ----
(***************************************************************************)
(* A model of extract_chinese.py: the per-line literal scanner, the        *)
(* placeholder normaliser, the line-comment remover, the per-file scan,    *)
(* the directory walk and main, the two key functions, the translator      *)
(* with its cache, and the de-duplication and rows of                      *)
(* CSVGenerator.generate.                                                  *)
(*                                                                         *)
(* Text is modelled as a sequence of Unicode code points, so the range     *)
(* test '\u4e00' <= char <= '\u9fff' and the regular expressions of the   *)
(* source act on the same characters as in the program.                    *)
(***************************************************************************)
EXTENDS Integers, Sequences, FiniteSets, TLC

VARIABLES
    pc,                     \* position of the operation being modelled
    text,                   \* the text / source line handed to a pure function
    formatted,              \* result of _format_string(text)
    found,                  \* result of _find_chinese_strings(text)
    lines,                  \* extract_from_file: content.split('\n')
    i,                      \* extract_from_file: number of lines already scanned
    in_multiline_comment,   \* extract_from_file: the block-comment flag
    results,                \* extract_from_file: the ChineseString list
    context,                \* generate: the scope name
    strings,                \* generate: the ChineseString list handed in
    translator,             \* CSVGenerator.translator is set (an API key exists)
    cache,                  \* TranslationCache.cache: "context:value" -> key
    unique_data,            \* generate: the insertion-ordered dict, as a sequence
    data_rows,              \* generate: the rows written to the table
    result_key,             \* the key a key function returned
    code_part,              \* what _remove_comment returned for text
    calls,                  \* the calls of translate made so far, oldest first
    args,                   \* main: the parsed arguments and what exists on disk
    tree,                   \* main: the folders of code_dir, each with its walk
    item,                   \* main: folders of code_dir already handled
    file,                   \* extract_from_directory: files of the walk handled
    scanned,                \* number of calls of extract_from_file
    outputs                 \* the tables written, oldest first

\* The variables of the key functions and of _remove_comment.
keyVars == <<result_key, code_part, calls>>

\* The variables of main and extract_from_directory.
mainVars == <<args, tree, item, file, scanned, outputs>>

vars == <<pc, text, formatted, found, lines, i, in_multiline_comment, results,
          context, strings, translator, cache, unique_data, data_rows,
          keyVars, mainVars>>

(***************************************************************************)
(* Characters the source names.                                            *)
(***************************************************************************)
Quote == 34
Apostrophe == 39
Dollar == 36
Backslash == 92
LBrace == 123
RBrace == 125
Slash == 47
Star == 42
LBracket == 91
RBracket == 93
Underscore == 95
Colon == 58
Digit0 == 48
CJKFirst == 19968
CJKLast == 40959

(***************************************************************************)
(* Python str primitives on sequences of code points.                      *)
(***************************************************************************)
Range(s) == {s[k] : k \in 1..Len(s)}

\* sub in s: the least index at which sub occurs in s, 0 when it does not
\* (str.find, 1-based; the empty string occurs at the start).
Find(s, sub) ==
    LET hits == {k \in 1..(Len(s) - Len(sub) + 1) :
                    \A m \in 1..Len(sub) : s[k + m - 1] = sub[m]}
    IN  IF hits = {} THEN 0 ELSE CHOOSE k \in hits : \A h \in hits : k <= h

\* `sub in s`
Contains(s, sub) == Find(s, sub) # 0

\* s.startswith(prefix)
StartsWith(s, prefix) ==
    /\ Len(prefix) <= Len(s)
    /\ \A k \in 1..Len(prefix) : s[k] = prefix[k]

\* s.replace(old, new): every occurrence of old replaced, from the left.
RECURSIVE ReplaceEvery(_, _, _)
ReplaceEvery(s, old, new) ==
    LET k == Find(s, old)
    IN  IF k = 0 THEN s
        ELSE SubSeq(s, 1, k - 1) \o new
                 \o ReplaceEvery(SubSeq(s, k + Len(old), Len(s)), old, new)

\* s.replace(old, new, 1): the first occurrence of old replaced, s when none.
Replace1(s, old, new) ==
    LET k == Find(s, old)
    IN  IF k = 0 THEN s
        ELSE SubSeq(s, 1, k - 1) \o new \o SubSeq(s, k + Len(old), Len(s))

\* str(n) for n >= 0: the decimal digits.
RECURSIVE Str(_)
Str(n) == IF n < 10 THEN <<Digit0 + n>> ELSE Str(n \div 10) \o <<Digit0 + (n % 10)>>

\* The least index >= from at which character c stands in s, 0 when none.
IndexFrom(s, c, from) ==
    LET hits == {k \in from..Len(s) : s[k] = c}
    IN  IF hits = {} THEN 0 ELSE CHOOSE k \in hits : \A h \in hits : k <= h

(***************************************************************************)
(* PlaceholderNormalizer: ChineseExtractor._format_string.                 *)
(***************************************************************************)
\* The end of a match of \{[^}]+\} starting at index k, 0 when none starts
\* there: text[k] is `{`, at least one character other than `}` follows, and
\* the match ends at the first `}` after it.
ParamEnd(s, k) ==
    IF k + 2 <= Len(s) /\ s[k] = LBrace /\ s[k + 1] # RBrace
    THEN IndexFrom(s, RBrace, k + 2)
    ELSE 0

\* re.findall(r'\{[^}]+\}', text) from index `from` on: the leftmost match,
\* then the matches of what follows it (matches do not overlap).
RECURSIVE ParamFindAllFrom(_, _)
ParamFindAllFrom(s, from) ==
    LET starts == {k \in from..Len(s) : ParamEnd(s, k) # 0}
    IN  IF starts = {} THEN <<>>
        ELSE LET k == CHOOSE x \in starts : \A y \in starts : x <= y
                 e == ParamEnd(s, k)
             IN  <<SubSeq(s, k, e)>> \o ParamFindAllFrom(s, e + 1)

ParamFindAll(s) == ParamFindAllFrom(s, 1)

\* '{' + str(n) + '}'
Numbered(n) == <<LBrace>> \o Str(n) \o <<RBrace>>

\* The loop of _format_string after n of the params have been handled.
RECURSIVE FormatLoop(_, _, _)
FormatLoop(result, params, n) ==
    IF n >= Len(params) THEN result
    ELSE FormatLoop(Replace1(result, params[n + 1], Numbered(n)), params, n + 1)

_format_string(s) == FormatLoop(s, ParamFindAll(s), 0)

(***************************************************************************)
(* SuppressionFilter: ChineseExtractor.IGNORE_API_PATTERNS.  Each pattern  *)
(* is searched for anywhere in the line (pattern.search).                  *)
(***************************************************************************)
\* Debug\.(Log|LogError|LogWarning|LogFormat|LogException)
DebugLogTexts ==
    {
      <<68, 101, 98, 117, 103, 46, 76, 111, 103>>,  \* Debug.Log
      <<68, 101, 98, 117, 103, 46, 76, 111, 103, 69, 114, 114, 111, 114>>,  \* Debug.LogError
      <<68, 101, 98, 117, 103, 46, 76, 111, 103, 87, 97, 114, 110, 105, 110, 103>>,  \* Debug.LogWarning
      <<68, 101, 98, 117, 103, 46, 76, 111, 103, 70, 111, 114, 109, 97, 116>>,  \* Debug.LogFormat
      <<68, 101, 98, 117, 103, 46, 76, 111, 103, 69, 120, 99, 101, 112, 116, 105, 111, 110>>  \* Debug.LogException
    }
\* SLApp\.Log\.(Info|Warning|Error)
SLAppLogTexts ==
    {
      <<83, 76, 65, 112, 112, 46, 76, 111, 103, 46, 73, 110, 102, 111>>,  \* SLApp.Log.Info
      <<83, 76, 65, 112, 112, 46, 76, 111, 103, 46, 87, 97, 114, 110, 105, 110, 103>>,  \* SLApp.Log.Warning
      <<83, 76, 65, 112, 112, 46, 76, 111, 103, 46, 69, 114, 114, 111, 114>>  \* SLApp.Log.Error
    }
\* SLApp\.Debug\.(Log|LogFormat|LogError|LogWatchBegin|LogWatchEnd)
SLAppDebugTexts ==
    {
      <<83, 76, 65, 112, 112, 46, 68, 101, 98, 117, 103, 46, 76, 111, 103>>,  \* SLApp.Debug.Log
      <<83, 76, 65, 112, 112, 46, 68, 101, 98, 117, 103, 46, 76, 111, 103, 70, 111, 114, 109, 97, 116>>,  \* SLApp.Debug.LogFormat
      <<83, 76, 65, 112, 112, 46, 68, 101, 98, 117, 103, 46, 76, 111, 103, 69, 114, 114, 111, 114>>,  \* SLApp.Debug.LogError
      <<83, 76, 65, 112, 112, 46, 68, 101, 98, 117, 103, 46, 76, 111, 103, 87, 97, 116, 99, 104, 66, 101, 103, 105, 110>>,  \* SLApp.Debug.LogWatchBegin
      <<83, 76, 65, 112, 112, 46, 68, 101, 98, 117, 103, 46, 76, 111, 103, 87, 97, 116, 99, 104, 69, 110, 100>>  \* SLApp.Debug.LogWatchEnd
    }
\* UnityEngine\.Debug\. , Console\.WriteLine , UnityEditor\.EditorUtility\.DisplayDialog , ExceptionHelper\.
PlainIgnoreTexts ==
    {
      <<85, 110, 105, 116, 121, 69, 110, 103, 105, 110, 101, 46, 68, 101, 98, 117, 103, 46>>,  \* UnityEngine.Debug.
      <<67, 111, 110, 115, 111, 108, 101, 46, 87, 114, 105, 116, 101, 76, 105, 110, 101>>,  \* Console.WriteLine
      <<85, 110, 105, 116, 121, 69, 100, 105, 116, 111, 114, 46, 69, 100, 105, 116, 111, 114, 85, 116, 105, 108, 105, 116, 121, 46, 68, 105, 115, 112, 108, 97, 121, 68, 105, 97, 108, 111, 103>>,  \* UnityEditor.EditorUtility.DisplayDialog
      <<69, 120, 99, 101, 112, 116, 105, 111, 110, 72, 101, 108, 112, 101, 114, 46>>  \* ExceptionHelper.
    }
\* the exception type names of the throw pattern
ExceptionTypes ==
    {
      <<69, 120, 99, 101, 112, 116, 105, 111, 110>>,  \* Exception
      <<78, 117, 108, 108, 82, 101, 102, 101, 114, 101, 110, 99, 101, 69, 120, 99, 101, 112, 116, 105, 111, 110>>,  \* NullReferenceException
      <<65, 114, 103, 117, 109, 101, 110, 116, 78, 117, 108, 108, 69, 120, 99, 101, 112, 116, 105, 111, 110>>,  \* ArgumentNullException
      <<65, 114, 103, 117, 109, 101, 110, 116, 69, 120, 99, 101, 112, 116, 105, 111, 110>>,  \* ArgumentException
      <<73, 110, 100, 101, 120, 79, 117, 116, 79, 102, 82, 97, 110, 103, 101, 69, 120, 99, 101, 112, 116, 105, 111, 110>>,  \* IndexOutOfRangeException
      <<73, 110, 118, 97, 108, 105, 100, 79, 112, 101, 114, 97, 116, 105, 111, 110, 69, 120, 99, 101, 112, 116, 105, 111, 110>>,  \* InvalidOperationException
      <<78, 111, 116, 73, 109, 112, 108, 101, 109, 101, 110, 116, 101, 100, 69, 120, 99, 101, 112, 116, 105, 111, 110>>,  \* NotImplementedException
      <<85, 110, 97, 117, 116, 104, 111, 114, 105, 122, 101, 100, 65, 99, 99, 101, 115, 115, 69, 120, 99, 101, 112, 116, 105, 111, 110>>,  \* UnauthorizedAccessException
      <<75, 101, 121, 78, 111, 116, 70, 111, 117, 110, 100, 69, 120, 99, 101, 112, 116, 105, 111, 110>>,  \* KeyNotFoundException
      <<68, 105, 118, 105, 100, 101, 66, 121, 90, 101, 114, 111, 69, 120, 99, 101, 112, 116, 105, 111, 110>>,  \* DivideByZeroException
      <<79, 118, 101, 114, 102, 108, 111, 119, 69, 120, 99, 101, 112, 116, 105, 111, 110>>,  \* OverflowException
      <<70, 111, 114, 109, 97, 116, 69, 120, 99, 101, 112, 116, 105, 111, 110>>,  \* FormatException
      <<84, 105, 109, 101, 111, 117, 116, 69, 120, 99, 101, 112, 116, 105, 111, 110>>,  \* TimeoutException
      <<73, 79, 69, 120, 99, 101, 112, 116, 105, 111, 110>>,  \* IOException
      <<68, 105, 114, 101, 99, 116, 111, 114, 121, 78, 111, 116, 70, 111, 117, 110, 100, 69, 120, 99, 101, 112, 116, 105, 111, 110>>,  \* DirectoryNotFoundException
      <<70, 105, 108, 101, 78, 111, 116, 70, 111, 117, 110, 100, 69, 120, 99, 101, 112, 116, 105, 111, 110>>,  \* FileNotFoundException
      <<80, 97, 116, 104, 84, 111, 111, 76, 111, 110, 103, 69, 120, 99, 101, 112, 116, 105, 111, 110>>  \* PathTooLongException
    }
\* \.LogException and \.LogErrorException, each followed by \s*\(
LogExceptionTexts ==
    {
      <<46, 76, 111, 103, 69, 120, 99, 101, 112, 116, 105, 111, 110>>,  \* .LogException
      <<46, 76, 111, 103, 69, 114, 114, 111, 114, 69, 120, 99, 101, 112, 116, 105, 111, 110>>  \* .LogErrorException
    }
ThrowText == <<116, 104, 114, 111, 119>>  \* throw
NewText == <<110, 101, 119>>  \* new
\* (?:System\.)? : the optional qualifier
SystemDotTexts == {<<>>, <<83, 121, 115, 116, 101, 109, 46>>}

LParen == 40
RParen == 41

\* The characters \s matches and str.strip() removes (str.isspace).
Whitespace ==
    (9..13) \cup (28..32) \cup {133, 160, 5760, 8232, 8233, 8239, 8287, 12288}
        \cup (8192..8202)

\* lit stands in s at index k.
LitAt(s, k, lit) ==
    /\ k >= 1
    /\ k + Len(lit) - 1 <= Len(s)
    /\ \A m \in 1..Len(lit) : s[k + m - 1] = lit[m]

\* The indices at which the text after a run of at least `least` whitespace
\* characters starting at index k can begin.
AfterSpaces(s, k, least) ==
    {q \in (k + least)..(Len(s) + 1) : \A m \in k..(q - 1) : s[m] \in Whitespace}

\* throw\s+new\s+(?:System\.)?(?:Exception|...)\s*\([^)]*\)
ThrowPatternMatches(s) ==
    \E k \in 1..Len(s) :
        /\ LitAt(s, k, ThrowText)
        /\ \E q1 \in AfterSpaces(s, k + Len(ThrowText), 1) :
            /\ LitAt(s, q1, NewText)
            /\ \E q2 \in AfterSpaces(s, q1 + Len(NewText), 1) :
                \E sys \in SystemDotTexts, ty \in ExceptionTypes :
                    /\ LitAt(s, q2, sys \o ty)
                    /\ \E q3 \in AfterSpaces(s, q2 + Len(sys) + Len(ty), 0) :
                        /\ LitAt(s, q3, <<LParen>>)
                        /\ IndexFrom(s, RParen, q3 + 1) # 0

\* \.LogException\s*\(  and  \.LogErrorException\s*\(
LogExceptionMatches(s) ==
    \E k \in 1..Len(s), lit \in LogExceptionTexts :
        /\ LitAt(s, k, lit)
        /\ \E q \in AfterSpaces(s, k + Len(lit), 0) : LitAt(s, q, <<LParen>>)

\* any(pattern.search(line) for pattern in IGNORE_API_PATTERNS)
IgnoreApiMatches(s) ==
    \/ \E lit \in DebugLogTexts \cup SLAppLogTexts \cup SLAppDebugTexts
                    \cup PlainIgnoreTexts : Contains(s, lit)
    \/ ThrowPatternMatches(s)
    \/ LogExceptionMatches(s)

(***************************************************************************)
(* LiteralClassifier: the per-line functions of ChineseExtractor.          *)
(***************************************************************************)
\* re.search('[\u4e00-\u9fff]', text)
_has_chinese(s) == \E k \in 1..Len(s) : CJKFirst <= s[k] /\ s[k] <= CJKLast

\* re.search(r'\{[^}]+\}', text)
_has_params(s) == \E k \in 1..Len(s) : ParamEnd(s, k) # 0

\* re.findall of  opener ([^"]*) "  from index `from` on, opener being $" or
\* ": the captured contents of the leftmost match and of the matches of what
\* follows it.  [^"]* stops at the first `"`, whatever precedes it.
RECURSIVE QuotedFindAllFrom(_, _, _)
QuotedFindAllFrom(s, opener, from) ==
    LET starts == {k \in from..Len(s) :
                      /\ LitAt(s, k, opener)
                      /\ IndexFrom(s, Quote, k + Len(opener)) # 0}
    IN  IF starts = {} THEN <<>>
        ELSE LET k == CHOOSE x \in starts : \A y \in starts : x <= y
                 e == IndexFrom(s, Quote, k + Len(opener))
             IN  <<SubSeq(s, k + Len(opener), e - 1)>>
                     \o QuotedFindAllFrom(s, opener, e + 1)

\* re.findall(r'\$\"([^\"]*)\"', line)
InterpolatedFindAll(s) == QuotedFindAllFrom(s, <<Dollar, Quote>>, 1)

\* re.findall(r'\"([^\"]*)\"', line)
PlainFindAll(s) == QuotedFindAllFrom(s, <<Quote>>, 1)

\* The first loop of _find_chinese_strings were it to keep a match only for a
\* script character.
RECURSIVE InterpolatedLoopChineseOnly(_, _, _)
InterpolatedLoopChineseOnly(res, matches, n) ==
    IF n > Len(matches) THEN res
    ELSE InterpolatedLoopChineseOnly(
             IF _has_chinese(matches[n]) THEN Append(res, matches[n]) ELSE res,
             matches, n + 1)

\* The first loop of _find_chinese_strings over the matches from index n on.
RECURSIVE InterpolatedLoop(_, _, _)
InterpolatedLoop(res, matches, n) ==
    IF n > Len(matches) THEN res
    ELSE InterpolatedLoop(
             IF _has_chinese(matches[n]) \/ _has_params(matches[n])
             THEN Append(res, matches[n]) ELSE res,
             matches, n + 1)

\* The second loop of _find_chinese_strings, were a match appended whether or
\* not the results already hold it.
RECURSIVE PlainLoopKeepsAll(_, _, _)
PlainLoopKeepsAll(res, matches, n) ==
    IF n > Len(matches) THEN res
    ELSE PlainLoopKeepsAll(
             IF _has_chinese(matches[n]) THEN Append(res, matches[n]) ELSE res,
             matches, n + 1)

\* The second loop of _find_chinese_strings.
RECURSIVE PlainLoop(_, _, _)
PlainLoop(res, matches, n) ==
    IF n > Len(matches) THEN res
    ELSE PlainLoop(
             IF _has_chinese(matches[n]) /\ matches[n] \notin Range(res)
             THEN Append(res, matches[n]) ELSE res,
             matches, n + 1)

\* _find_chinese_strings without its first loop over IGNORE_API_PATTERNS.
FindWithoutIgnore(s) ==
    PlainLoop(InterpolatedLoop(<<>>, InterpolatedFindAll(s), 1), PlainFindAll(s), 1)

_find_chinese_strings(s) ==
    IF IgnoreApiMatches(s) THEN <<>>
    ELSE PlainLoop(InterpolatedLoop(<<>>, InterpolatedFindAll(s), 1),
                   PlainFindAll(s), 1)

\* str.strip()
Strip(s) ==
    LET keep == {k \in 1..Len(s) : s[k] \notin Whitespace}
    IN  IF keep = {} THEN <<>>
        ELSE SubSeq(s, CHOOSE a \in keep : \A b \in keep : a <= b,
                       CHOOSE a \in keep : \A b \in keep : a >= b)

\* _is_attribute_line with the text after the bracket never looked at.
AttributeLineAnyTail(s) ==
    StartsWith(Strip(s), <<LBracket>>) /\ Contains(Strip(s), <<RBracket>>)

_is_attribute_line(s) ==
    LET stripped == Strip(s)
    IN  /\ StartsWith(stripped, <<LBracket>>)
        /\ Contains(stripped, <<RBracket>>)
        /\ LET bracket_end == Find(stripped, <<RBracket>>)
               after_bracket == Strip(SubSeq(stripped, bracket_end + 1, Len(stripped)))
           IN  after_bracket = <<>>

(***************************************************************************)
(* Inputs of the pure functions: texts put together from a few parts.      *)
(***************************************************************************)
MaxFormatParts == 3
MaxLineParts == 5

\* The concatenations of at most n members of parts.
RECURSIVE Concats(_, _)
Concats(parts, n) ==
    IF n = 0 THEN {<<>>}
    ELSE LET shorter == Concats(parts, n - 1)
         IN  shorter \cup {t \o p : t \in shorter, p \in parts}

FormatParts ==
    {
      <<123, 48, 125>>,   \* {0}
      <<123, 49, 125>>,   \* {1}
      <<123, 97, 125>>,   \* {a}
      <<20013>>,          \* U+4E2D
      <<123>>,            \* {
      <<125>>             \* }
    }

LineParts ==
    {
      <<34>>,             \* "
      <<36, 34>>,         \* $"
      <<92, 34>>,         \* \"
      <<20013>>,          \* U+4E2D
      <<123, 120, 125>>,  \* {x}
      <<68, 101, 98, 117, 103, 46, 76, 111, 103, 40>>   \* Debug.Log(
    }

\* The value of the variables an operation does not use.
NoFile == <<>>
NoStrings == <<>>
NoArgs == [code_dir |-> FALSE, mode |-> "all", folder |-> <<>>]

\* No key function and no translate call is part of the operation.
NoKeyState ==
    /\ result_key = <<>>
    /\ code_part = <<>>
    /\ calls = <<>>

\* main is not part of the operation.
NoMainState ==
    /\ args = NoArgs
    /\ tree = <<>>
    /\ item = 0
    /\ file = 0
    /\ scanned = 0
    /\ outputs = <<>>

(***************************************************************************)
(* SpecFormat: _format_string applied to a text.                           *)
(***************************************************************************)
InitFormat ==
    /\ pc = "text"
    /\ text \in Concats(FormatParts, MaxFormatParts)
    /\ formatted = <<>>
    /\ found = <<>>
    /\ lines = NoFile
    /\ i = 0
    /\ in_multiline_comment = FALSE
    /\ results = <<>>
    /\ context = <<>>
    /\ strings = NoStrings
    /\ translator = FALSE
    /\ cache = <<>>
    /\ unique_data = <<>>
    /\ data_rows = <<>>
    /\ NoKeyState
    /\ NoMainState

FormatString ==
    /\ pc = "text"
    /\ formatted' = _format_string(text)
    /\ pc' = "formatted"
    /\ UNCHANGED <<text, found, lines, i, in_multiline_comment, results, context,
                   strings, translator, cache, unique_data, data_rows,
                   keyVars, mainVars>>

NextFormat == FormatString

SpecFormat == InitFormat /\ [][NextFormat]_vars

(***************************************************************************)
(* SpecLine: _find_chinese_strings applied to a line.                      *)
(***************************************************************************)
InitLine ==
    /\ pc = "line"
    /\ text \in Concats(LineParts, MaxLineParts)
    /\ formatted = <<>>
    /\ found = <<>>
    /\ lines = NoFile
    /\ i = 0
    /\ in_multiline_comment = FALSE
    /\ results = <<>>
    /\ context = <<>>
    /\ strings = NoStrings
    /\ translator = FALSE
    /\ cache = <<>>
    /\ unique_data = <<>>
    /\ data_rows = <<>>
    /\ NoKeyState
    /\ NoMainState

FindChineseStrings ==
    /\ pc = "line"
    /\ found' = _find_chinese_strings(text)
    /\ pc' = "found"
    /\ UNCHANGED <<text, formatted, lines, i, in_multiline_comment, results, context,
                   strings, translator, cache, unique_data, data_rows,
                   keyVars, mainVars>>

NextLine == FindChineseStrings

SpecLine == InitLine /\ [][NextLine]_vars

(***************************************************************************)
(* Claims on _format_string.                                               *)
(***************************************************************************)
\* C2: normalisation is idempotent: formatting the formatted text again
\* gives the formatted text.
C2_Idempotent ==
    pc = "formatted" => _format_string(formatted) = formatted

\* The text from index `from` on with each {...} span replaced where it
\* stands, the first of them by {n}, the next by {n+1}, and so on.
RECURSIVE InPlaceFrom(_, _, _)
InPlaceFrom(s, from, n) ==
    LET starts == {k \in from..Len(s) : ParamEnd(s, k) # 0}
    IN  IF starts = {} THEN SubSeq(s, from, Len(s))
        ELSE LET k == CHOOSE x \in starts : \A y \in starts : x <= y
                 e == ParamEnd(s, k)
             IN  SubSeq(s, from, k - 1) \o Numbered(n) \o InPlaceFrom(s, e + 1, n + 1)

\* C3: the k-th {...} span from the left is replaced by {k} where it stands
\* and the text outside the spans is unchanged.
C3_ReplacedInPlace ==
    pc = "formatted" => formatted = InPlaceFrom(text, 1, 0)

(***************************************************************************)
(* Claims on _find_chinese_strings.                                        *)
(***************************************************************************)
\* The quote at index k is escaped: an odd number of backslashes precede it.
Escaped(s, k) ==
    LET run == {n \in 0..(k - 1) : \A m \in (k - n)..(k - 1) : s[m] = Backslash}
        most == CHOOSE n \in run : \A o \in run : n >= o
    IN  most % 2 = 1

\* The line is one literal: it opens with " or $" and the first unescaped "
\* after the opening is its last character.
OneLiteral(s, opener) ==
    /\ StartsWith(s, opener)
    /\ Len(s) > Len(opener)
    /\ s[Len(s)] = Quote
    /\ ~Escaped(s, Len(s))
    /\ \A k \in (Len(opener) + 1)..(Len(s) - 1) : s[k] = Quote => Escaped(s, k)

LiteralContent(s, opener) == SubSeq(s, Len(opener) + 1, Len(s) - 1)

\* C6: a line holding one literal whose content includes an escaped quote
\* yields one candidate, the content up to the next unescaped quote.
C6_EscapedQuoteKept ==
    pc = "found" =>
        \A opener \in {<<Quote>>, <<Dollar, Quote>>} :
            (/\ OneLiteral(text, opener)
             /\ Quote \in Range(LiteralContent(text, opener))
             /\ _has_chinese(LiteralContent(text, opener)))
            => found = <<LiteralContent(text, opener)>>

Occurrences(ts, c) == Cardinality({n \in 1..Len(ts) : ts[n] = c})

RECURSIVE RemoveCommentLoop(_, _, _, _, _)
RemoveCommentLoop(line, n, result, in_string, string_char) ==
    IF n > Len(line) THEN result
    ELSE LET char == line[n]
             last == IF result = <<>> THEN 0 ELSE result[Len(result)]
         IN  IF ~in_string /\ (char = Quote \/ char = Apostrophe)
             THEN RemoveCommentLoop(line, n + 1, Append(result, char), TRUE, char)
             ELSE IF in_string /\ char = string_char
             THEN IF last = Backslash
                  THEN RemoveCommentLoop(line, n + 1,
                           [result EXCEPT ![Len(result)] = char], TRUE, string_char)
                  ELSE RemoveCommentLoop(line, n + 1, Append(result, char), FALSE, 0)
             ELSE IF ~in_string /\ char = Slash /\ last = Slash
             THEN result
             ELSE RemoveCommentLoop(line, n + 1, Append(result, char),
                                    in_string, string_char)

_remove_comment(line) == RemoveCommentLoop(line, 1, <<>>, FALSE, 0)

OpenComment == <<Slash, Star>>    \* /*
CloseComment == <<Star, Slash>>   \* */

\* file_path.name of the file being scanned.
FileName == <<65, 46, 99, 115>>  \* A.cs

\* f"{file_path.name}---{i}"
Pos(name, n) == name \o <<45, 45, 45>> \o Str(n)

\* The block-comment flag after a line, were `*/` not to clear it.
CommentFlagNeverCleared(flag, line) ==
    IF Contains(line, OpenComment) THEN TRUE ELSE flag

\* in_multiline_comment after the two tests on '/*' and '*/' of the loop body.
CommentFlagAfter(flag, line) ==
    IF Contains(line, CloseComment) THEN FALSE
    ELSE IF Contains(line, OpenComment) THEN TRUE
    ELSE flag

\* The loop body goes on to the next line at one of its first two `continue`.
SkippedAsComment(flag, line) ==
    \/ Contains(line, CloseComment)
    \/ CommentFlagAfter(flag, line)

\* The ChineseString entries the inner loop appends for the texts found.
RECURSIVE NewResults(_, _, _)
NewResults(chinese_strings, n, lineno) ==
    IF n > Len(chinese_strings) THEN <<>>
    ELSE <<[value |-> _format_string(chinese_strings[n]),
            pos |-> Pos(FileName, lineno)]>>
             \o NewResults(chinese_strings, n + 1, lineno)

\* What one pass of the loop body appends to results for line number lineno.
\* The line with its comment removed is assigned and not read again, and the
\* loop over IGNORE_API_PATTERNS only continues its own iteration: the search
\* is made on original_line.
LineResults(flag, original_line, lineno) ==
    IF SkippedAsComment(flag, original_line) THEN <<>>
    ELSE IF _is_attribute_line(original_line) THEN <<>>
    ELSE LET line == _remove_comment(original_line)
         IN  NewResults(_find_chinese_strings(original_line), 1, lineno)

(***************************************************************************)
(* SpecFile: extract_from_file on a file of a few lines.                   *)
(***************************************************************************)
MaxLines == 3

LineCatalog ==
    {
      \* s = "\u62bd\u5361";
      <<115, 32, 61, 32, 34, 25277, 21345, 34, 59>>,
      \* /* "\u6ce8\u91ca"
      <<47, 42, 32, 34, 27880, 37322, 34>>,
      \* "\u7ed3\u675f" */
      <<34, 32467, 26463, 34, 32, 42, 47>>,
      \* /* a */ y = "\u540c\u884c";
      <<47, 42, 32, 97, 32, 42, 47, 32, 121, 32, 61, 32, 34, 21516, 34892, 34, 59>>,
      \* x = "\u9519\u8bef"; Debug.LogError("a");
      <<120, 32, 61, 32, 34, 38169, 35823, 34, 59, 32, 68, 101, 98, 117, 103, 46, 76, 111, 103, 69, 114, 114, 111, 114, 40, 34, 97, 34, 41, 59>>,
      \* throw new Exception("\u5931\u8d25");
      <<116, 104, 114, 111, 119, 32, 110, 101, 119, 32, 69, 120, 99, 101, 112, 116, 105, 111, 110, 40, 34, 22833, 36133, 34, 41, 59>>,
      \* [Tooltip("\u63d0\u793a")]
      <<91, 84, 111, 111, 108, 116, 105, 112, 40, 34, 25552, 31034, 34, 41, 93>>,
      \*  [Tooltip("\u63d0\u793a")] public int x;
      <<32, 91, 84, 111, 111, 108, 116, 105, 112, 40, 34, 25552, 31034, 34, 41, 93, 32, 112, 117, 98, 108, 105, 99, 32, 105, 110, 116, 32, 120, 59>>,
      \* t = $"\u7b49\u7ea7{lv}";
      <<116, 32, 61, 32, 36, 34, 31561, 32423, 123, 108, 118, 125, 34, 59>>,
      \* x = 1; // "\u6ce8\u91ca"
      <<120, 32, 61, 32, 49, 59, 32, 47, 47, 32, 34, 27880, 37322, 34>>,
      \* u = "/*";
      <<117, 32, 61, 32, 34, 47, 42, 34, 59>>,
      \* y = 2; // /* c
      <<121, 32, 61, 32, 50, 59, 32, 47, 47, 32, 47, 42, 32, 99>>
    }

InitFile ==
    /\ pc = "scan"
    /\ lines \in UNION {[1..n -> LineCatalog] : n \in 1..MaxLines}
    /\ i = 0
    /\ in_multiline_comment = FALSE
    /\ results = <<>>
    /\ text = <<>>
    /\ formatted = <<>>
    /\ found = <<>>
    /\ context = <<>>
    /\ strings = NoStrings
    /\ translator = FALSE
    /\ cache = <<>>
    /\ unique_data = <<>>
    /\ data_rows = <<>>
    /\ NoKeyState
    /\ NoMainState

\* One pass of `for i, line in enumerate(lines, 1)`.
ScanLine ==
    /\ pc = "scan"
    /\ i < Len(lines)
    /\ i' = i + 1
    /\ in_multiline_comment' = CommentFlagAfter(in_multiline_comment, lines[i + 1])
    /\ results' = results \o LineResults(in_multiline_comment, lines[i + 1], i + 1)
    /\ UNCHANGED <<pc, lines, text, formatted, found, context, strings, translator,
                   cache, unique_data, data_rows,
                   keyVars, mainVars>>

\* `return results` once the loop is over.
ReturnResults ==
    /\ pc = "scan"
    /\ i = Len(lines)
    /\ pc' = "returned"
    /\ UNCHANGED <<lines, i, in_multiline_comment, results, text, formatted, found,
                   context, strings, translator, cache, unique_data, data_rows,
                   keyVars, mainVars>>

NextFile == ScanLine \/ ReturnResults

SpecFile == InitFile /\ [][NextFile]_vars

(***************************************************************************)
(* Claims on extract_from_file.                                            *)
(***************************************************************************)
\* The values recorded for line number k, in order.
RECURSIVE ValuesAt(_, _)
ValuesAt(rs, k) ==
    IF rs = <<>> THEN <<>>
    ELSE (IF Head(rs).pos = Pos(FileName, k) THEN <<Head(rs).value>> ELSE <<>>)
             \o ValuesAt(Tail(rs), k)

\* The texts a scanned line yields, normalised.
RECURSIVE Normalised(_)
Normalised(ts) ==
    IF ts = <<>> THEN <<>> ELSE <<_format_string(Head(ts))>> \o Normalised(Tail(ts))

\* Line k follows a line containing `/*` and no `*/`, with no line
\* containing `*/` in between: the block comment is open when line k is read.
InsideComment(k) ==
    \E j \in 1..(k - 1) :
        /\ Contains(lines[j], OpenComment)
        /\ ~Contains(lines[j], CloseComment)
        /\ \A m \in (j + 1)..(k - 1) : ~Contains(lines[m], CloseComment)

\* Line k neither opens nor closes a block comment and is read outside one.
OutsideComment(k) ==
    /\ ~InsideComment(k)
    /\ ~Contains(lines[k], OpenComment)
    /\ ~Contains(lines[k], CloseComment)

\* C4: a line on which an ignore pattern matches anywhere contributes no
\* record, whatever else the line holds.
C4_IgnoredLineHasNoRecord ==
    \A k \in 1..i : IgnoreApiMatches(lines[k]) => ValuesAt(results, k) = <<>>

\* A scanned line outside any comment holds an ignored call and, outside the
\* call, a script-character literal, and nothing was recorded for it.
C4_Witness ==
    \E k \in 1..i :
        /\ OutsideComment(k)
        /\ ~_is_attribute_line(lines[k])
        /\ IgnoreApiMatches(lines[k])
        /\ \E t \in Range(PlainFindAll(lines[k])) :
               _has_chinese(t) /\ ~IgnoreApiMatches(<<Quote>> \o t \o <<Quote>>)
        /\ ValuesAt(results, k) = <<>>

\* C5: after a line containing `/*` and no `*/`, the lines up to and including
\* the next line containing `*/` contribute no record, and the line after that
\* closing line is scanned again: being a line of code, it contributes the
\* literals found on it.
C5_BlockComment ==
    \A k \in 1..i :
        /\ InsideComment(k) => ValuesAt(results, k) = <<>>
        /\ (/\ k > 1
            /\ InsideComment(k - 1)
            /\ Contains(lines[k - 1], CloseComment)
            /\ ~Contains(lines[k], OpenComment)
            /\ ~Contains(lines[k], CloseComment)
            /\ ~_is_attribute_line(lines[k]))
           => ValuesAt(results, k) = Normalised(_find_chinese_strings(lines[k]))

\* An opening line, then the closing line holding a literal and contributing
\* nothing, then a line of code whose literal is recorded.
C5_Witness ==
    /\ i >= 3
    /\ \E k \in 3..i :
        /\ InsideComment(k - 1)
        /\ Contains(lines[k - 1], CloseComment)
        /\ _has_chinese(lines[k - 1])
        /\ ValuesAt(results, k - 1) = <<>>
        /\ ~Contains(lines[k], OpenComment)
        /\ ~Contains(lines[k], CloseComment)
        /\ ValuesAt(results, k) # <<>>

\* The trimmed line starts with `[` and only whitespace follows its first `]`.
MetadataOnly(s) ==
    \E a \in 1..Len(s), b \in 1..Len(s) :
        /\ a < b
        /\ s[a] = LBracket
        /\ \A m \in 1..(a - 1) : s[m] \in Whitespace
        /\ s[b] = RBracket
        /\ \A m \in (a + 1)..(b - 1) : s[m] # RBracket
        /\ \A m \in (b + 1)..Len(s) : s[m] \in Whitespace

\* The trimmed line starts with `[`, holds a `]`, and something other than
\* whitespace follows its first `]`.
MetadataThenCode(s) ==
    \E a \in 1..Len(s), b \in 1..Len(s) :
        /\ a < b
        /\ s[a] = LBracket
        /\ \A m \in 1..(a - 1) : s[m] \in Whitespace
        /\ s[b] = RBracket
        /\ \A m \in (a + 1)..(b - 1) : s[m] # RBracket
        /\ \E m \in (b + 1)..Len(s) : s[m] \notin Whitespace

KeyCeiling == 50

\* str.upper() on the letters a-z; the other characters of the model's texts
\* (digits, punctuation, U+4E00..U+9FFF) have no upper case.
RECURSIVE Upper(_)
Upper(s) ==
    IF s = <<>> THEN <<>>
    ELSE <<IF 97 <= Head(s) /\ Head(s) <= 122 THEN Head(s) - 32 ELSE Head(s)>>
             \o Upper(Tail(s))

\* \d, on the digits 0-9.
IsDigit(c) == 48 <= c /\ c <= 57

\* The end of a match of \{[\d]+\} starting at index k, 0 when none starts there.
DigitParamEnd(s, k) ==
    IF k <= Len(s) /\ s[k] = LBrace
    THEN LET ends == {e \in (k + 2)..Len(s) :
                         /\ s[e] = RBrace
                         /\ \A m \in (k + 1)..(e - 1) : IsDigit(s[m])}
         IN  IF ends = {} THEN 0 ELSE CHOOSE e \in ends : TRUE
    ELSE 0

\* re.sub(r'\{[\d]+\}', '', text) from index `from` on.
RECURSIVE RemoveDigitParams(_, _)
RemoveDigitParams(s, from) ==
    LET starts == {k \in from..Len(s) : DigitParamEnd(s, k) # 0}
    IN  IF starts = {} THEN SubSeq(s, from, Len(s))
        ELSE LET k == CHOOSE x \in starts : \A y \in starts : x <= y
             IN  SubSeq(s, from, k - 1) \o RemoveDigitParams(s, DigitParamEnd(s, k) + 1)

\* len(re.findall(r'\{[\d]+\}', text)) from index `from` on.
RECURSIVE CountDigitParams(_, _)
CountDigitParams(s, from) ==
    LET starts == {k \in from..Len(s) : DigitParamEnd(s, k) # 0}
    IN  IF starts = {} THEN 0
        ELSE LET k == CHOOSE x \in starts : \A y \in starts : x <= y
             IN  1 + CountDigitParams(s, DigitParamEnd(s, k) + 1)

\* a <= b on str: the order of the first differing code point, a prefix first.
RECURSIVE StrLeq(_, _)
StrLeq(a, b) ==
    IF a = <<>> THEN TRUE
    ELSE IF b = <<>> THEN FALSE
    ELSE IF Head(a) # Head(b) THEN Head(a) < Head(b)
    ELSE StrLeq(Tail(a), Tail(b))

\* "_".join(words)
RECURSIVE Join(_)
Join(words) ==
    IF words = <<>> THEN <<>>
    ELSE IF Len(words) = 1 THEN words[1]
    ELSE words[1] \o <<Underscore>> \o Join(Tail(words))

\* word_map.get(char, char)
WordMapGet(word_map, char) ==
    IF <<char>> \in DOMAIN word_map THEN word_map[<<char>>] ELSE <<char>>

ParamText == <<80, 65, 82, 65, 77, 95>>  \* PARAM_
TextText == <<84, 69, 88, 84>>  \* TEXT

\* word_map of _local_translate (lines 157-204): the dict literal, key -> word; where
\* the literal names a key twice the later entry stands, as Python evaluates it
\* (U+5F97, U+8D44, U+65E0, U+6CD5, U+5B8C, U+6210, U+5173, U+4EA7).
LocalWordMap ==
    (<<25277>> :> <<68, 82, 65, 87>>)  \* U+62BD -> DRAW
    @@ (<<21345>> :> <<67, 65, 82, 68>>)  \* U+5361 -> CARD
    @@ (<<36947>> :> <<73, 84, 69, 77>>)  \* U+9053 -> ITEM
    @@ (<<20855>> :> <<80, 82, 79, 80>>)  \* U+5177 -> PROP
    @@ (<<36275>> :> <<83, 85, 70, 70, 73, 67, 73, 69, 78, 84>>)  \* U+8DB3 -> SUFFICIENT
    @@ (<<19981>> :> <<78, 79, 84>>)  \* U+4E0D -> NOT
    @@ (<<20877>> :> <<82, 69>>)  \* U+518D -> RE
    @@ (<<32467>> :> <<79, 65, 84, 72>>)  \* U+7ED3 -> OATH
    @@ (<<20041>> :> <<66, 73, 78, 68>>)  \* U+4E49 -> BIND
    @@ (<<27425>> :> <<84, 73, 77, 69>>)  \* U+6B21 -> TIME
    @@ (<<24517>> :> <<77, 85, 83, 84>>)  \* U+5FC5 -> MUST
    @@ (<<24471>> :> <<79, 66, 84, 65, 73, 78>>)  \* U+5F97 -> OBTAIN
    @@ (<<32418>> :> <<82, 69, 68>>)  \* U+7EA2 -> RED
    @@ (<<23558>> :> <<71, 69, 78, 69, 82, 65, 76>>)  \* U+5C06 -> GENERAL
    @@ (<<32047>> :> <<84, 79, 84, 65, 76>>)  \* U+7D2F -> TOTAL
    @@ (<<35745>> :> <<67, 79, 85, 78, 84>>)  \* U+8BA1 -> COUNT
    @@ (<<24635>> :> <<84, 79, 84, 65, 76>>)  \* U+603B -> TOTAL
    @@ (<<36164>> :> <<65, 83, 83, 69, 84>>)  \* U+8D44 -> ASSET
    @@ (<<28304>> :> <<83, 79, 85, 82, 67, 69>>)  \* U+6E90 -> SOURCE
    @@ (<<30830>> :> <<67, 79, 78, 70, 73, 82, 77>>)  \* U+786E -> CONFIRM
    @@ (<<35748>> :> <<67, 79, 78, 70, 73, 82, 77>>)  \* U+8BA4 -> CONFIRM
    @@ (<<36141>> :> <<80, 85, 82, 67, 72, 65, 83, 69>>)  \* U+8D2D -> PURCHASE
    @@ (<<20080>> :> <<66, 85, 89>>)  \* U+4E70 -> BUY
    @@ (<<36825>> :> <<84, 72, 73, 83>>)  \* U+8FD9 -> THIS
    @@ (<<20010>> :> <<71, 69>>)  \* U+4E2A -> GE
    @@ (<<21527>> :> <<81, 85, 69, 83, 84, 73, 79, 78>>)  \* U+5417 -> QUESTION
    @@ (<<35831>> :> <<80, 76, 69, 65, 83, 69>>)  \* U+8BF7 -> PLEASE
    @@ (<<25302>> :> <<68, 82, 65, 71>>)  \* U+62D6 -> DRAG
    @@ (<<25341>> :> <<68, 82, 79, 80>>)  \* U+62FD -> DROP
    @@ (<<25351>> :> <<83, 80, 69, 67, 73, 70, 89>>)  \* U+6307 -> SPECIFY
    @@ (<<23450>> :> <<70, 73, 88, 69, 68>>)  \* U+5B9A -> FIXED
    @@ (<<20301>> :> <<80, 79, 83, 73, 84, 73, 79, 78>>)  \* U+4F4D -> POSITION
    @@ (<<29289>> :> <<73, 84, 69, 77>>)  \* U+7269 -> ITEM
    @@ (<<21697>> :> <<80, 82, 79, 68, 85, 67, 84>>)  \* U+54C1 -> PRODUCT
    @@ (<<25968>> :> <<78, 85, 77, 66, 69, 82>>)  \* U+6570 -> NUMBER
    @@ (<<37327>> :> <<65, 77, 79, 85, 78, 84>>)  \* U+91CF -> AMOUNT
    @@ (<<26080>> :> <<67, 65, 78, 78, 79, 84>>)  \* U+65E0 -> CANNOT
    @@ (<<27861>> :> <<65, 66, 76, 69>>)  \* U+6CD5 -> ABLE
    @@ (<<23436>> :> <<67, 79, 77, 80, 76, 69, 84, 69>>)  \* U+5B8C -> COMPLETE
    @@ (<<25104>> :> <<99, 104, 101, 110, 103>>)  \* U+6210 -> cheng
    @@ (<<25506>> :> <<69, 88, 80, 76, 79, 82, 69>>)  \* U+63A2 -> EXPLORE
    @@ (<<32034>> :> <<83, 69, 65, 82, 67, 72>>)  \* U+7D22 -> SEARCH
    @@ (<<24230>> :> <<68, 69, 71, 82, 69, 69>>)  \* U+5EA6 -> DEGREE
    @@ (<<25512>> :> <<82, 69, 67, 79, 77, 77, 69, 78, 68>>)  \* U+63A8 -> RECOMMEND
    @@ (<<33616>> :> <<82, 69, 67, 79, 77, 77, 69, 78, 68>>)  \* U+8350 -> RECOMMEND
    @@ (<<25112>> :> <<66, 65, 84, 84, 76, 69>>)  \* U+6218 -> BATTLE
    @@ (<<21147>> :> <<80, 79, 87, 69, 82>>)  \* U+529B -> POWER
    @@ (<<31561>> :> <<76, 69, 86, 69, 76>>)  \* U+7B49 -> LEVEL
    @@ (<<38453>> :> <<76, 73, 78, 69, 85, 80>>)  \* U+9635 -> LINEUP
    @@ (<<23481>> :> <<67, 79, 78, 84, 65, 73, 78, 69, 82>>)  \* U+5BB9 -> CONTAINER
    @@ (<<20026>> :> <<73, 83>>)  \* U+4E3A -> IS
    @@ (<<31354>> :> <<69, 77, 80, 84, 89>>)  \* U+7A7A -> EMPTY
    @@ (<<36339>> :> <<74, 85, 77, 80>>)  \* U+8DF3 -> JUMP
    @@ (<<36807>> :> <<80, 65, 83, 83>>)  \* U+8FC7 -> PASS
    @@ (<<20027>> :> <<77, 65, 73, 78>>)  \* U+4E3B -> MAIN
    @@ (<<32447>> :> <<76, 73, 78, 69>>)  \* U+7EBF -> LINE
    @@ (<<20851>> :> <<67, 76, 79, 83, 69>>)  \* U+5173 -> CLOSE
    @@ (<<23578>> :> <<78, 79, 84>>)  \* U+5C1A -> NOT
    @@ (<<26410>> :> <<85, 78>>)  \* U+672A -> UN
    @@ (<<35299>> :> <<85, 78, 76, 79, 67, 75>>)  \* U+89E3 -> UNLOCK
    @@ (<<38145>> :> <<76, 79, 67, 75>>)  \* U+9501 -> LOCK
    @@ (<<36335>> :> <<80, 65, 84, 72>>)  \* U+8DEF -> PATH
    @@ (<<24452>> :> <<87, 65, 89>>)  \* U+5F84 -> WAY
    @@ (<<28857>> :> <<80, 79, 73, 78, 84>>)  \* U+70B9 -> POINT
    @@ (<<38169>> :> <<69, 82, 82, 79, 82>>)  \* U+9519 -> ERROR
    @@ (<<35823>> :> <<69, 82, 82, 79, 82>>)  \* U+8BEF -> ERROR
    @@ (<<38656>> :> <<78, 69, 69, 68>>)  \* U+9700 -> NEED
    @@ (<<22320>> :> <<77, 65, 80>>)  \* U+5730 -> MAP
    @@ (<<22270>> :> <<77, 65, 80>>)  \* U+56FE -> MAP
    @@ (<<20135>> :> <<79, 85, 84, 80, 85, 84>>)  \* U+4EA7 -> OUTPUT
    @@ (<<24577>> :> <<83, 84, 65, 84, 69>>)  \* U+6001 -> STATE
    @@ (<<20449>> :> <<73, 78, 70, 79>>)  \* U+4FE1 -> INFO
    @@ (<<24687>> :> <<84, 73, 79, 78>>)  \* U+606F -> TION
    @@ (<<26174>> :> <<83, 72, 79, 87>>)  \* U+663E -> SHOW
    @@ (<<31034>> :> <<83, 72, 79, 87>>)  \* U+793A -> SHOW
    @@ (<<22870>> :> <<82, 69, 87, 65, 82, 68>>)  \* U+5956 -> REWARD
    @@ (<<21169>> :> <<73, 78, 67, 69, 78, 84, 73, 86, 69>>)  \* U+52B1 -> INCENTIVE
    @@ (<<21153>> :> <<84, 65, 83, 75>>)  \* U+52A1 -> TASK
    @@ (<<36133>> :> <<70, 65, 73, 76>>)  \* U+8D25 -> FAIL
    @@ (<<21151>> :> <<83, 85, 67, 67, 69, 83, 83>>)  \* U+529F -> SUCCESS
    @@ (<<36820>> :> <<66, 65, 67, 75>>)  \* U+8FD4 -> BACK
    @@ (<<22238>> :> <<82, 69, 84, 85, 82, 78>>)  \* U+56DE -> RETURN
    @@ (<<38381>> :> <<67, 76, 79, 83, 69>>)  \* U+95ED -> CLOSE
    @@ (<<25171>> :> <<79, 80, 69, 78>>)  \* U+6253 -> OPEN
    @@ (<<24320>> :> <<79, 80, 69, 78>>)  \* U+5F00 -> OPEN
    @@ (<<35774>> :> <<83, 69, 84>>)  \* U+8BBE -> SET
    @@ (<<32622>> :> <<84, 73, 78, 71>>)  \* U+7F6E -> TING
    @@ (<<36873>> :> <<79, 80, 84, 73, 79, 78>>)  \* U+9009 -> OPTION
    @@ (<<39033>> :> <<73, 84, 69, 77>>)  \* U+9879 -> ITEM
    @@ (<<25552>> :> <<84, 73, 80>>)  \* U+63D0 -> TIP
    @@ (<<35686>> :> <<87, 65, 82, 78, 73, 78, 71>>)  \* U+8B66 -> WARNING
    @@ (<<21578>> :> <<65, 76, 69, 82, 84>>)  \* U+544A -> ALERT
    @@ (<<21487>> :> <<67, 65, 78>>)  \* U+53EF -> CAN
    @@ (<<20197>> :> <<65, 66, 76, 69>>)  \* U+4EE5 -> ABLE
    @@ (<<20219>> :> <<65, 80, 80, 79, 73, 78, 84>>)  \* U+4EFB -> APPOINT
    @@ (<<21629>> :> <<78, 65, 77, 69>>)  \* U+547D -> NAME
    @@ (<<24030>> :> <<83, 84, 65, 84, 69>>)  \* U+5DDE -> STATE
    @@ (<<29287>> :> <<71, 79, 86, 69, 82, 78, 79, 82>>)  \* U+7267 -> GOVERNOR
    @@ (<<33719>> :> <<71, 69, 84>>)  \* U+83B7 -> GET
    @@ (<<39069>> :> <<69, 88, 84, 82, 65>>)  \* U+989D -> EXTRA
    @@ (<<22806>> :> <<69, 88, 84, 82, 65>>)  \* U+5916 -> EXTRA
    @@ (<<21344>> :> <<79, 67, 67, 85, 80, 89>>)  \* U+5360 -> OCCUPY
    @@ (<<39046>> :> <<76, 69, 65, 68>>)  \* U+9886 -> LEAD
    @@ (<<20986>> :> <<79, 85, 84, 80, 85, 84>>)  \* U+51FA -> OUTPUT
    @@ (<<21152>> :> <<66, 79, 78, 85, 83>>)  \* U+52A0 -> BONUS

\* word_map of _default_key (lines 463-488): the dict literal, key -> word; where
\* the literal names a key twice the later entry stands, as Python evaluates it
\* (U+9519+U+8BEF, U+4F4D).
DefaultWordMap ==
    (<<25506, 32034>> :> <<69, 88, 80, 76, 79, 82, 69>>)  \* U+63A2 U+7D22 -> EXPLORE
    @@ (<<24230>> :> <<68, 69, 71, 82, 69, 69>>)  \* U+5EA6 -> DEGREE
    @@ (<<25512, 33616>> :> <<82, 69, 67, 79, 77, 77, 69, 78, 68>>)  \* U+63A8 U+8350 -> RECOMMEND
    @@ (<<25112, 21147>> :> <<80, 79, 87, 69, 82>>)  \* U+6218 U+529B -> POWER
    @@ (<<31561, 32423>> :> <<76, 69, 86, 69, 76>>)  \* U+7B49 U+7EA7 -> LEVEL
    @@ (<<38453, 23481>> :> <<76, 73, 78, 69, 85, 80>>)  \* U+9635 U+5BB9 -> LINEUP
    @@ (<<20026, 31354>> :> <<69, 77, 80, 84, 89>>)  \* U+4E3A U+7A7A -> EMPTY
    @@ (<<26080, 27861>> :> <<67, 65, 78, 78, 79, 84>>)  \* U+65E0 U+6CD5 -> CANNOT
    @@ (<<36339, 36807>> :> <<83, 75, 73, 80>>)  \* U+8DF3 U+8FC7 -> SKIP
    @@ (<<20027, 32447>> :> <<77, 65, 73, 78, 76, 73, 78, 69>>)  \* U+4E3B U+7EBF -> MAINLINE
    @@ (<<20851, 21345>> :> <<76, 69, 86, 69, 76>>)  \* U+5173 U+5361 -> LEVEL
    @@ (<<23578, 26410>> :> <<78, 79, 84>>)  \* U+5C1A U+672A -> NOT
    @@ (<<35299, 38145>> :> <<85, 78, 76, 79, 67, 75>>)  \* U+89E3 U+9501 -> UNLOCK
    @@ (<<36335, 24452>> :> <<80, 65, 84, 72>>)  \* U+8DEF U+5F84 -> PATH
    @@ (<<28857>> :> <<80, 79, 73, 78, 84>>)  \* U+70B9 -> POINT
    @@ (<<25968, 37327>> :> <<67, 79, 85, 78, 84>>)  \* U+6570 U+91CF -> COUNT
    @@ (<<38169, 35823>> :> <<69, 82, 82, 79, 82>>)  \* U+9519 U+8BEF -> ERROR
    @@ (<<24635>> :> <<84, 79, 84, 65, 76>>)  \* U+603B -> TOTAL
    @@ (<<38656>> :> <<78, 69, 69, 68>>)  \* U+9700 -> NEED
    @@ (<<22320, 22270>> :> <<77, 65, 80>>)  \* U+5730 U+56FE -> MAP
    @@ (<<36164, 20135>> :> <<65, 83, 83, 69, 84>>)  \* U+8D44 U+4EA7 -> ASSET
    @@ (<<29366, 24577>> :> <<83, 84, 65, 84, 69>>)  \* U+72B6 U+6001 -> STATE
    @@ (<<20449, 24687>> :> <<73, 78, 70, 79>>)  \* U+4FE1 U+606F -> INFO
    @@ (<<26174, 31034>> :> <<83, 72, 79, 87>>)  \* U+663E U+793A -> SHOW
    @@ (<<22870, 21169>> :> <<82, 69, 87, 65, 82, 68>>)  \* U+5956 U+52B1 -> REWARD
    @@ (<<20219, 21153>> :> <<84, 65, 83, 75>>)  \* U+4EFB U+52A1 -> TASK
    @@ (<<23436, 25104>> :> <<67, 79, 77, 80, 76, 69, 84, 69>>)  \* U+5B8C U+6210 -> COMPLETE
    @@ (<<22833, 36133>> :> <<70, 65, 73, 76>>)  \* U+5931 U+8D25 -> FAIL
    @@ (<<25104, 21151>> :> <<83, 85, 67, 67, 69, 83, 83>>)  \* U+6210 U+529F -> SUCCESS
    @@ (<<30830, 35748>> :> <<67, 79, 78, 70, 73, 82, 77>>)  \* U+786E U+8BA4 -> CONFIRM
    @@ (<<21462, 28040>> :> <<67, 65, 78, 67, 69, 76>>)  \* U+53D6 U+6D88 -> CANCEL
    @@ (<<36820, 22238>> :> <<66, 65, 67, 75>>)  \* U+8FD4 U+56DE -> BACK
    @@ (<<20851, 38381>> :> <<67, 76, 79, 83, 69>>)  \* U+5173 U+95ED -> CLOSE
    @@ (<<25171, 24320>> :> <<79, 80, 69, 78>>)  \* U+6253 U+5F00 -> OPEN
    @@ (<<35774, 32622>> :> <<83, 69, 84, 84, 73, 78, 71>>)  \* U+8BBE U+7F6E -> SETTING
    @@ (<<36873, 39033>> :> <<79, 80, 84, 73, 79, 78>>)  \* U+9009 U+9879 -> OPTION
    @@ (<<25552, 31034>> :> <<84, 73, 80>>)  \* U+63D0 U+793A -> TIP
    @@ (<<35686, 21578>> :> <<87, 65, 82, 78, 73, 78, 71>>)  \* U+8B66 U+544A -> WARNING
    @@ (<<21487, 20197>> :> <<67, 65, 78>>)  \* U+53EF U+4EE5 -> CAN
    @@ (<<20219, 21629>> :> <<65, 80, 80, 79, 73, 78, 84>>)  \* U+4EFB U+547D -> APPOINT
    @@ (<<24030, 29287>> :> <<71, 79, 86, 69, 82, 78, 79, 82>>)  \* U+5DDE U+7267 -> GOVERNOR
    @@ (<<33719, 24471>> :> <<71, 69, 84>>)  \* U+83B7 U+5F97 -> GET
    @@ (<<39069, 22806>> :> <<69, 88, 84, 82, 65>>)  \* U+989D U+5916 -> EXTRA
    @@ (<<21344, 39046>> :> <<79, 67, 67, 85, 80, 89>>)  \* U+5360 U+9886 -> OCCUPY
    @@ (<<20135, 20986>> :> <<79, 85, 84, 80, 85, 84>>)  \* U+4EA7 U+51FA -> OUTPUT
    @@ (<<21152, 25104>> :> <<66, 79, 78, 85, 83>>)  \* U+52A0 U+6210 -> BONUS
    @@ (<<25277>> :> <<68, 82, 65, 87>>)  \* U+62BD -> DRAW
    @@ (<<21345>> :> <<67, 65, 82, 68>>)  \* U+5361 -> CARD
    @@ (<<36947>> :> <<73, 84, 69, 77>>)  \* U+9053 -> ITEM
    @@ (<<20855>> :> <<80, 82, 79, 80>>)  \* U+5177 -> PROP
    @@ (<<36275>> :> <<83, 85, 70, 70, 73, 67, 73, 69, 78, 84>>)  \* U+8DB3 -> SUFFICIENT
    @@ (<<27425>> :> <<84, 73, 77, 69>>)  \* U+6B21 -> TIME
    @@ (<<24517>> :> <<77, 85, 83, 84>>)  \* U+5FC5 -> MUST
    @@ (<<24471>> :> <<71, 69, 84>>)  \* U+5F97 -> GET
    @@ (<<32418>> :> <<82, 69, 68>>)  \* U+7EA2 -> RED
    @@ (<<23558>> :> <<71, 69, 78, 69, 82, 65, 76>>)  \* U+5C06 -> GENERAL
    @@ (<<32047>> :> <<84, 79, 84, 65, 76>>)  \* U+7D2F -> TOTAL
    @@ (<<35745>> :> <<67, 79, 85, 78, 84>>)  \* U+8BA1 -> COUNT
    @@ (<<30830>> :> <<67, 79, 78, 70, 73, 82, 77>>)  \* U+786E -> CONFIRM
    @@ (<<35748>> :> <<67, 79, 78, 70, 73, 82, 77>>)  \* U+8BA4 -> CONFIRM
    @@ (<<36141>> :> <<80, 85, 82, 67, 72, 65, 83, 69>>)  \* U+8D2D -> PURCHASE
    @@ (<<20080>> :> <<66, 85, 89>>)  \* U+4E70 -> BUY
    @@ (<<35831>> :> <<80, 76, 69, 65, 83, 69>>)  \* U+8BF7 -> PLEASE
    @@ (<<25302>> :> <<68, 82, 65, 71>>)  \* U+62D6 -> DRAG
    @@ (<<25341>> :> <<68, 82, 79, 80>>)  \* U+62FD -> DROP
    @@ (<<25351>> :> <<83, 80, 69, 67, 73, 70, 89>>)  \* U+6307 -> SPECIFY
    @@ (<<20301>> :> <<85, 78, 73, 84>>)  \* U+4F4D -> UNIT
    @@ (<<29289>> :> <<73, 84, 69, 77>>)  \* U+7269 -> ITEM
    @@ (<<21697>> :> <<80, 82, 79, 68, 85, 67, 84>>)  \* U+54C1 -> PRODUCT
    @@ (<<25968>> :> <<78, 85, 77, 66, 69, 82>>)  \* U+6570 -> NUMBER
    @@ (<<37327>> :> <<65, 77, 79, 85, 78, 84>>)  \* U+91CF -> AMOUNT
    @@ (<<26080>> :> <<78, 79>>)  \* U+65E0 -> NO
    @@ (<<27861>> :> <<87, 65, 89>>)  \* U+6CD5 -> WAY
    @@ (<<23436>> :> <<67, 79, 77, 80, 76, 69, 84, 69>>)  \* U+5B8C -> COMPLETE
    @@ (<<25932>> :> <<69, 78, 69, 77, 89>>)  \* U+654C -> ENEMY
    @@ (<<26041>> :> <<83, 73, 68, 69>>)  \* U+65B9 -> SIDE
    @@ (<<36824>> :> <<83, 84, 73, 76, 76>>)  \* U+8FD8 -> STILL
    @@ (<<26377>> :> <<72, 65, 86, 69>>)  \* U+6709 -> HAVE
    @@ (<<21333>> :> <<83, 73, 78, 71, 76, 69>>)  \* U+5355 -> SINGLE
    @@ (<<25112>> :> <<66, 65, 84, 84, 76, 69>>)  \* U+6218 -> BATTLE
    @@ (<<26007>> :> <<70, 73, 71, 72, 84>>)  \* U+6597 -> FIGHT
    @@ (<<32988>> :> <<86, 73, 67, 84, 79, 82, 89>>)  \* U+80DC -> VICTORY
    @@ (<<21033>> :> <<80, 82, 79, 70, 73, 84>>)  \* U+5229 -> PROFIT
    @@ (<<22870>> :> <<82, 69, 87, 65, 82, 68>>)  \* U+5956 -> REWARD
    @@ (<<21169>> :> <<66, 79, 78, 85, 83>>)  \* U+52B1 -> BONUS
    @@ (<<20934>> :> <<80, 82, 69, 80, 65, 82, 69>>)  \* U+51C6 -> PREPARE
    @@ (<<22791>> :> <<82, 69, 65, 68, 89>>)  \* U+5907 -> READY
    @@ (<<24320>> :> <<83, 84, 65, 82, 84>>)  \* U+5F00 -> START
    @@ (<<22987>> :> <<66, 69, 71, 73, 78>>)  \* U+59CB -> BEGIN
    @@ (<<24685>> :> <<67, 79, 78, 71, 82, 65, 84, 85, 76, 65, 84, 69>>)  \* U+606D -> CONGRATULATE
    @@ (<<21916>> :> <<74, 79, 89>>)  \* U+559C -> JOY
    @@ (<<33719>> :> <<71, 69, 84>>)  \* U+83B7 -> GET

\* The loop of _local_translate over the characters of text: a script
\* character is looked up, and dropped when what the lookup gives still
\* compares within '\u4e00'..'\u9fff'.
RECURSIVE LocalWords(_)
LocalWords(s) ==
    IF s = <<>> THEN <<>>
    ELSE LET char == Head(s)
             translated == WordMapGet(LocalWordMap, char)
         IN  (IF CJKFirst <= char /\ char <= CJKLast
              THEN IF StrLeq(<<CJKFirst>>, translated) /\ StrLeq(translated, <<CJKLast>>)
                   THEN <<>>
                   ELSE <<translated>>
              ELSE <<>>)
                 \o LocalWords(Tail(s))

\* The loop of _default_key over the characters of clean_text.
RECURSIVE DefaultWords(_)
DefaultWords(s) ==
    IF s = <<>> THEN <<>>
    ELSE (IF CJKFirst <= Head(s) /\ Head(s) <= CJKLast
          THEN <<WordMapGet(DefaultWordMap, Head(s))>>
          ELSE <<>>)
             \o DefaultWords(Tail(s))

\* result[:max_len] when max_len > 0, result otherwise.
Truncated(result, max_len) ==
    IF max_len > 0 /\ max_len < Len(result) THEN SubSeq(result, 1, max_len) ELSE result

_local_translate(chinese_text, ctx) ==
    LET txt == Strip(RemoveDigitParams(chinese_text, 1))
        param_count == CountDigitParams(chinese_text, 1)
        result_words == LocalWords(txt)
        module_name == Upper(ctx)
        max_len == KeyCeiling - Len(module_name) - 1
    IN  IF txt = <<>>
        THEN IF ctx # <<>>
             THEN Upper(ctx) \o <<Underscore>> \o ParamText \o Str(param_count)
             ELSE ParamText \o Str(param_count)
        ELSE IF result_words = <<>>
        THEN IF param_count > 0
             THEN Upper(ctx) \o <<Underscore>> \o ParamText \o Str(param_count)
             ELSE Upper(ctx) \o <<Underscore>> \o TextText
        ELSE IF module_name # <<>>
             THEN module_name \o <<Underscore>> \o Truncated(Join(result_words), max_len)
             ELSE Truncated(Join(result_words), max_len)

_default_key(txt, ctx) ==
    LET module_name == Upper(ctx)
        clean_text == Strip(RemoveDigitParams(txt, 1))
        param_count == CountDigitParams(txt, 1)
        words == DefaultWords(clean_text)
        max_len == KeyCeiling - Len(module_name) - 1
    IN  IF clean_text = <<>>
        THEN IF module_name # <<>>
             THEN module_name \o <<Underscore>> \o ParamText \o Str(param_count)
             ELSE ParamText \o Str(param_count)
        ELSE IF words = <<>>
        THEN IF module_name # <<>>
             THEN module_name \o <<Underscore>> \o TextText
             ELSE TextText
        ELSE IF module_name # <<>>
             THEN module_name \o <<Underscore>> \o Truncated(Join(words), max_len)
             ELSE Truncated(Join(words), max_len)

(***************************************************************************)
(* TranslationCache and DeepSeekTranslator.translate.                      *)
(***************************************************************************)
\* f"{context}:{chinese_text}"
CacheKey(chinese_text, ctx) == ctx \o <<Colon>> \o chinese_text

\* TranslationCache.get; the empty text stands for None, which `if cached:`
\* treats as it treats an empty string.
CacheGet(c, key) == IF key \in DOMAIN c THEN c[key] ELSE <<>>

\* TranslationCache.set
CacheSet(c, key, value) ==
    [k \in DOMAIN c \cup {key} |-> IF k = key THEN value ELSE c[k]]

\* What translate returns, given what _call_api returned; api_result is the
\* empty text when _call_api returned None or an empty string, which
\* `if api_result` treats alike.
TranslateResult(c, chinese_text, ctx, api_result) ==
    LET cached == CacheGet(c, CacheKey(chinese_text, ctx))
        result == _local_translate(chinese_text, ctx)
    IN  IF cached # <<>> THEN cached
        ELSE IF api_result # <<>> /\ api_result # result THEN api_result
        ELSE result

\* The cache after translate, were the key of the service returned without
\* being stored.
TranslateCacheLocalOnly(c, chinese_text, ctx, api_result) ==
    IF CacheGet(c, CacheKey(chinese_text, ctx)) # <<>> THEN c
    ELSE IF api_result # <<>> /\ api_result # _local_translate(chinese_text, ctx) THEN c
    ELSE CacheSet(c, CacheKey(chinese_text, ctx), _local_translate(chinese_text, ctx))

\* The cache after translate.
TranslateCache(c, chinese_text, ctx, api_result) ==
    IF CacheGet(c, CacheKey(chinese_text, ctx)) # <<>> THEN c
    ELSE CacheSet(c, CacheKey(chinese_text, ctx),
                  TranslateResult(c, chinese_text, ctx, api_result))

(***************************************************************************)
(* ExtractionRecordStore: CSVGenerator.generate.                           *)
(***************************************************************************)
\* The de-duplication loop, were a later string to replace the entry of an
\* earlier one with the same value.
RECURSIVE DedupLastWins(_, _)
DedupLastWins(unique, ss) ==
    IF ss = <<>> THEN unique
    ELSE LET s == Head(ss)
             at == {n \in 1..Len(unique) : unique[n].value = s.value}
         IN  DedupLastWins(
                 IF at = {} THEN Append(unique, s)
                 ELSE [n \in 1..Len(unique) |-> IF n \in at THEN s ELSE unique[n]],
                 Tail(ss))

\* The de-duplication loop, were a new value put before the values already
\* held.
RECURSIVE DedupNewestFirst(_, _)
DedupNewestFirst(unique, ss) ==
    IF ss = <<>> THEN unique
    ELSE DedupNewestFirst(IF \E n \in 1..Len(unique) : unique[n].value = Head(ss).value
                          THEN unique
                          ELSE <<Head(ss)>> \o unique,
                          Tail(ss))

\* The de-duplication loop: unique_data, a dict in insertion order, is the
\* sequence of its values; its keys are their .value.
RECURSIVE Dedup(_, _)
Dedup(unique, ss) ==
    IF ss = <<>> THEN unique
    ELSE Dedup(IF \E n \in 1..Len(unique) : unique[n].value = Head(ss).value
               THEN unique
               ELSE Append(unique, Head(ss)),
               Tail(ss))

\* The key, were it written as first obtained.
KeyAsObtained(key, ctx) == key

\* The key after the `if context:` block that follows its generation.
EnsurePrefix(key, ctx) ==
    IF ctx # <<>> /\ ~StartsWith(key, Upper(ctx) \o <<Underscore>>)
    THEN Upper(ctx) \o <<Underscore>> \o key
    ELSE key

(***************************************************************************)
(* SpecGen: one call of CSVGenerator.generate.                             *)
(***************************************************************************)
MaxStrings == 3
LongScopeLen == 46

Scopes ==
    {
      <<>>,                                      \* the default context ""
      <<66, 97, 116, 116, 108, 101>>,         \* Battle
      [n \in 1..LongScopeLen |-> 97]             \* aaa...a
    }

Values ==
    {
      <<25277, 21345, 36947, 20855, 19981, 36275>>,  \* \u62bd\u5361\u9053\u5177\u4e0d\u8db3
      <<123, 48, 125, 123, 49, 125>>,  \* {0}{1}
      <<76, 118, 46, 123, 48, 125>>,  \* Lv.{0}
      <<72, 112, 46, 123, 48, 125>>,  \* Hp.{0}
      <<24685, 21916, 24685, 21916, 24685, 21916>>  \* \u606d\u559c\u606d\u559c\u606d\u559c
    }

\* What _call_api can return: nothing usable, or a stripped text.
ApiResults ==
    {
      <<>>,  \* (empty)
      <<68, 82, 65, 87>>,  \* DRAW
      <<66, 65, 84, 84, 76, 69, 95, 68, 82, 65, 87>>  \* BATTLE_DRAW
    }

\* What the cache file can hold when the run starts.
InitialCaches ==
    {
      <<>>,
      CacheKey(<<25277, 21345, 36947, 20855, 19981, 36275>>, <<66, 97, 116, 116, 108, 101>>) :> <<79, 76, 68, 95, 75, 69, 89>>,
      CacheKey(<<123, 48, 125, 123, 49, 125>>, <<66, 97, 116, 116, 108, 101>>) :> <<66, 65, 84, 84, 76, 69, 95, 80, 65, 73, 82>>
    }

\* The strings handed to generate: the n-th was found on line n of the file, the
\* order in which extract_from_file appends them.
StringLists ==
    {[k \in 1..Len(vs) |-> [value |-> vs[k], pos |-> Pos(FileName, k)]] :
        vs \in UNION {[1..n -> Values] : n \in 0..MaxStrings}}

InitGen ==
    /\ pc = "generate"
    /\ context \in Scopes
    /\ strings \in StringLists
    /\ translator \in BOOLEAN
    /\ cache \in InitialCaches
    /\ unique_data = <<>>
    /\ data_rows = <<>>
    /\ text = <<>>
    /\ formatted = <<>>
    /\ found = <<>>
    /\ lines = NoFile
    /\ i = 0
    /\ in_multiline_comment = FALSE
    /\ results = <<>>
    /\ NoKeyState
    /\ NoMainState

\* `if not strings: return`
GenerateNothing ==
    /\ pc = "generate"
    /\ strings = <<>>
    /\ pc' = "returned"
    /\ UNCHANGED <<context, strings, translator, cache, unique_data, data_rows,
                   text, formatted, found, lines, i, in_multiline_comment, results,
                   keyVars, mainVars>>

\* The de-duplication loop of generate.
GenerateDedup ==
    /\ pc = "generate"
    /\ strings # <<>>
    /\ unique_data' = Dedup(<<>>, strings)
    /\ pc' = "rows"
    /\ UNCHANGED <<context, strings, translator, cache, data_rows,
                   text, formatted, found, lines, i, in_multiline_comment, results,
                   keyVars, mainVars>>

\* One pass of `for value, cs in unique_data.items()` with a translator.
GenerateRowTranslated ==
    /\ pc = "rows"
    /\ translator
    /\ Len(data_rows) < Len(unique_data)
    /\ LET cs == unique_data[Len(data_rows) + 1]
       IN  \E api_result \in ApiResults :
               /\ data_rows' = Append(data_rows,
                      [key |-> EnsurePrefix(
                                   TranslateResult(cache, cs.value, context, api_result),
                                   context),
                       value |-> cs.value,
                       pos |-> cs.pos])
               /\ cache' = TranslateCache(cache, cs.value, context, api_result)
    /\ UNCHANGED <<pc, context, strings, translator, unique_data,
                   text, formatted, found, lines, i, in_multiline_comment, results,
                   keyVars, mainVars>>

\* One pass of `for value, cs in unique_data.items()` without a translator.
GenerateRowDefault ==
    /\ pc = "rows"
    /\ ~translator
    /\ Len(data_rows) < Len(unique_data)
    /\ LET cs == unique_data[Len(data_rows) + 1]
       IN  data_rows' = Append(data_rows,
               [key |-> EnsurePrefix(_default_key(cs.value, context), context),
                value |-> cs.value,
                pos |-> cs.pos])
    /\ UNCHANGED <<pc, context, strings, translator, cache, unique_data,
                   text, formatted, found, lines, i, in_multiline_comment, results,
                   keyVars, mainVars>>

\* writer.writerows(data_rows)
GenerateWrite ==
    /\ pc = "rows"
    /\ Len(data_rows) = Len(unique_data)
    /\ pc' = "written"
    /\ UNCHANGED <<context, strings, translator, cache, unique_data, data_rows,
                   text, formatted, found, lines, i, in_multiline_comment, results,
                   keyVars, mainVars>>

NextGen ==
    \/ GenerateNothing
    \/ GenerateDedup
    \/ GenerateRowTranslated
    \/ GenerateRowDefault
    \/ GenerateWrite

SpecGen == InitGen /\ [][NextGen]_vars

(***************************************************************************)
(* Claims on CSVGenerator.generate and the keys.                           *)
(***************************************************************************)
\* The index of the first string of the list with value v.
FirstWith(v) ==
    CHOOSE a \in 1..Len(strings) :
        /\ strings[a].value = v
        /\ \A b \in 1..(a - 1) : strings[b].value # v

\* C1: the rows written hold exactly one row per distinct value of the strings
\* handed in, and the row's pos is the pos of the first string with that value.
C1_OneRowPerValue ==
    pc = "written" =>
        /\ {data_rows[n].value : n \in 1..Len(data_rows)}
               = {strings[a].value : a \in 1..Len(strings)}
        /\ \A n \in 1..Len(data_rows), o \in 1..Len(data_rows) :
               data_rows[n].value = data_rows[o].value => n = o
        /\ \A n \in 1..Len(data_rows) :
               data_rows[n].pos = strings[FirstWith(data_rows[n].value)].pos

\* A value occurs twice, another value between its occurrences, and its row
\* carries the pos of the first occurrence.
C1_Witness ==
    /\ pc = "written"
    /\ \E a \in 1..Len(strings), b \in 1..Len(strings), n \in 1..Len(data_rows) :
        /\ a + 1 < b
        /\ strings[a].value = strings[b].value
        /\ strings[a + 1].value # strings[a].value
        /\ strings[a].pos # strings[b].pos
        /\ data_rows[n].value = strings[a].value
        /\ data_rows[n].pos = strings[a].pos

\* C9: with a non-empty scope, the key of every row starts with the scope
\* name in upper case followed by `_`, whichever way the key was obtained.
C9_KeyHasScopePrefix ==
    context # <<>> =>
        \A n \in 1..Len(data_rows) :
            StartsWith(data_rows[n].key, Upper(context) \o <<Underscore>>)

\* A table was written with a translator whose rows hold a key taken from the
\* cache and a key returned by the service, neither of which had the prefix.
C9_Witness ==
    /\ pc = "written"
    /\ translator
    /\ context # <<>>
    /\ \E n \in 1..Len(data_rows), o \in 1..Len(data_rows) :
        /\ data_rows[n].key = Upper(context) \o <<Underscore>> \o <<79, 76, 68, 95, 75, 69, 89>>
        /\ data_rows[o].key = Upper(context) \o <<Underscore>> \o <<68, 82, 65, 87>>

\* C10: the key the default algorithm produces is at most 50 characters long,
\* the scope prefix included, whatever the length of the scope name.
C10_KeyWithinCeiling ==
    ~translator =>
        \A n \in 1..Len(data_rows) : Len(data_rows[n].key) <= KeyCeiling

\* C11: a key produced without a translator holds no character of the range
\* U+4E00..U+9FFF; a script character the word map does not hold is dropped,
\* not written into the key.
C11_NoScriptCharInKey ==
    ~translator =>
        \A n \in 1..Len(data_rows) : ~_has_chinese(data_rows[n].key)

(***************************************************************************)
(* SpecKey: the two key functions applied to a normalised value.           *)
(***************************************************************************)
MaxKeyParts == 3

KeyParts ==
    {
      <<25277>>,          \* U+62BD, in both word maps
      <<19981>>,          \* U+4E0D, in the word map of _local_translate only
      <<20013>>,          \* U+4E2D, in neither word map
      <<123, 120, 125>>,  \* {x}
      <<76, 118, 46>>,    \* Lv.
      <<32>>              \* a space
    }

\* The values extract_from_file can record: a text _find_chinese_strings keeps
\* has a script character or a parameter, and is then put through
\* _format_string.
KeyValues ==
    {_format_string(t) : t \in {u \in Concats(KeyParts, MaxKeyParts) :
                                    _has_chinese(u) \/ _has_params(u)}}

InitKey ==
    /\ pc = "value"
    /\ text \in KeyValues
    /\ context \in Scopes
    /\ result_key = <<>>
    /\ code_part = <<>>
    /\ calls = <<>>
    /\ formatted = <<>>
    /\ found = <<>>
    /\ lines = NoFile
    /\ i = 0
    /\ in_multiline_comment = FALSE
    /\ results = <<>>
    /\ strings = NoStrings
    /\ translator = FALSE
    /\ cache = <<>>
    /\ unique_data = <<>>
    /\ data_rows = <<>>
    /\ NoMainState

\* key = self._default_key(value, context)
DefaultKey ==
    /\ pc = "value"
    /\ result_key' = _default_key(text, context)
    /\ pc' = "default_key"
    /\ UNCHANGED <<text, context, code_part, calls, formatted, found, lines, i,
                   in_multiline_comment, results, strings, translator, cache,
                   unique_data, data_rows, mainVars>>

\* result = self._local_translate(chinese_text, context)
LocalTranslate ==
    /\ pc = "value"
    /\ result_key' = _local_translate(text, context)
    /\ pc' = "local_translate"
    /\ UNCHANGED <<text, context, code_part, calls, formatted, found, lines, i,
                   in_multiline_comment, results, strings, translator, cache,
                   unique_data, data_rows, mainVars>>

NextKey == DefaultKey \/ LocalTranslate

SpecKey == InitKey /\ [][NextKey]_vars

(***************************************************************************)
(* Claims on the key functions.                                            *)
(***************************************************************************)
\* The number of placeholders of a text made of placeholders {0}, {1}, ...
\* and white space only; -1 for any other text.
RECURSIVE PlaceholdersOnly(_)
PlaceholdersOnly(s) ==
    IF s = <<>> THEN 0
    ELSE IF Head(s) \in Whitespace THEN PlaceholdersOnly(Tail(s))
    ELSE IF DigitParamEnd(s, 1) = 0 THEN -1
    ELSE LET rest == PlaceholdersOnly(SubSeq(s, DigitParamEnd(s, 1) + 1, Len(s)))
         IN  IF rest < 0 THEN -1 ELSE rest + 1

\* C12: with a non-empty scope the default key of a value made of n
\* placeholders only is <SCOPE>_PARAM_<n>, and the default key of a value that
\* is not made of placeholders only and has no script character, so that no
\* token is left of it, is <SCOPE>_TEXT. The default key is what _default_key
\* returns and what _local_translate returns for translate to fall back on.
C12_Fallback ==
    (pc \in {"default_key", "local_translate"} /\ context # <<>>) =>
        /\ PlaceholdersOnly(text) >= 0 =>
               result_key = Upper(context) \o <<Underscore>> \o ParamText
                                \o Str(PlaceholdersOnly(text))
        /\ (PlaceholdersOnly(text) < 0 /\ ~_has_chinese(text)) =>
               result_key = Upper(context) \o <<Underscore>> \o TextText

(***************************************************************************)
(* SpecTranslate: a few calls of DeepSeekTranslator.translate on one       *)
(* cache. calls keeps, for each call made, its arguments, whether          *)
(* _call_api was called and what it returned, and the key translate        *)
(* returned.                                                               *)
(***************************************************************************)
MaxCalls == 2

TranslateScopes ==
    {
      <<>>,                                      \* the default context ""
      <<66, 97, 116, 116, 108, 101>>          \* Battle
    }

\* What the cache file can hold when the run starts; the last one holds an
\* empty key, which `if cached:` takes as no entry.
TranslateCaches ==
    InitialCaches
        \cup {CacheKey(<<76, 118, 46, 123, 48, 125>>, <<66, 97, 116, 116, 108, 101>>) :> <<>>}

InitTranslate ==
    /\ pc = "translator"
    /\ cache \in TranslateCaches
    /\ calls = <<>>
    /\ result_key = <<>>
    /\ code_part = <<>>
    /\ text = <<>>
    /\ context = <<>>
    /\ formatted = <<>>
    /\ found = <<>>
    /\ lines = NoFile
    /\ i = 0
    /\ in_multiline_comment = FALSE
    /\ results = <<>>
    /\ strings = NoStrings
    /\ translator = TRUE
    /\ unique_data = <<>>
    /\ data_rows = <<>>
    /\ NoMainState

\* translate returns at `if cached: return cached`.
TranslateCached ==
    /\ pc = "translator"
    /\ Len(calls) < MaxCalls
    /\ \E chinese_text \in Values, ctx \in TranslateScopes :
           /\ CacheGet(cache, CacheKey(chinese_text, ctx)) # <<>>
           /\ calls' = Append(calls,
                  [chinese_text |-> chinese_text,
                   context |-> ctx,
                   called_api |-> FALSE,
                   api_result |-> <<>>,
                   result |-> TranslateResult(cache, chinese_text, ctx, <<>>)])
           /\ cache' = TranslateCache(cache, chinese_text, ctx, <<>>)
    /\ UNCHANGED <<pc, result_key, code_part, text, context, formatted, found, lines,
                   i, in_multiline_comment, results, strings, translator,
                   unique_data, data_rows, mainVars>>

\* translate goes past the cache: _local_translate, then _call_api, which
\* returns api_result (empty for None, which it also returns when the request
\* raises), then cache.set.
TranslateCall ==
    /\ pc = "translator"
    /\ Len(calls) < MaxCalls
    /\ \E chinese_text \in Values, ctx \in TranslateScopes, api_result \in ApiResults :
           /\ CacheGet(cache, CacheKey(chinese_text, ctx)) = <<>>
           /\ calls' = Append(calls,
                  [chinese_text |-> chinese_text,
                   context |-> ctx,
                   called_api |-> TRUE,
                   api_result |-> api_result,
                   result |-> TranslateResult(cache, chinese_text, ctx, api_result)])
           /\ cache' = TranslateCache(cache, chinese_text, ctx, api_result)
    /\ UNCHANGED <<pc, result_key, code_part, text, context, formatted, found, lines,
                   i, in_multiline_comment, results, strings, translator,
                   unique_data, data_rows, mainVars>>

NextTranslate == TranslateCached \/ TranslateCall

SpecTranslate == InitTranslate /\ [][NextTranslate]_vars

(***************************************************************************)
(* Claims on DeepSeekTranslator.translate.                                 *)
(***************************************************************************)
\* C13: a call of translate for which the service gave nothing usable returned
\* the key _default_key gives for the same value and scope, and the cache
\* holds that key under scope:value.
C13_FallbackIsDefaultKey ==
    \A n \in 1..Len(calls) :
        (calls[n].called_api /\ calls[n].api_result = <<>>) =>
            /\ calls[n].result = _default_key(calls[n].chinese_text, calls[n].context)
            /\ CacheGet(cache, CacheKey(calls[n].chinese_text, calls[n].context))
                   = _default_key(calls[n].chinese_text, calls[n].context)

\* C14: for every call of translate made, the cache maps scope:value to the
\* key the call returned; and a call for a value and scope translated before
\* returned the key of the earlier call without calling the service.
C14_CacheKeepsReturnedKey ==
    /\ \A n \in 1..Len(calls) :
           CacheGet(cache, CacheKey(calls[n].chinese_text, calls[n].context))
               = calls[n].result
    /\ \A m \in 1..Len(calls), n \in 1..Len(calls) :
           (m < n /\ calls[m].chinese_text = calls[n].chinese_text
                  /\ calls[m].context = calls[n].context) =>
               /\ calls[n].result = calls[m].result
               /\ ~calls[n].called_api

\* A value was translated by the service, and translated again for the same
\* scope: the second call found the service's key in the cache.
C14_Witness ==
    /\ Len(calls) = 2
    /\ calls[1].chinese_text = calls[2].chinese_text
    /\ calls[1].context = calls[2].context
    /\ calls[1].called_api
    /\ calls[1].api_result # <<>>
    /\ calls[1].result = calls[1].api_result
    /\ ~calls[2].called_api
    /\ calls[2].result = calls[1].api_result

(***************************************************************************)
(* main and extract_from_directory.                                        *)
(***************************************************************************)
Battle == <<66, 97, 116, 116, 108, 101>>    \* Battle
Ui == <<85, 105>>                           \* Ui
Bind == <<98, 105, 110, 100>>                \* bind, a member of IGNORE_FOLDERS

\* IGNORE_FOLDERS
IGNORE_FOLDERS ==
    {
      <<98, 105, 110, 100>>,   \* bind
      <<66, 105, 110, 100>>,    \* Bind
      <<66, 73, 78, 68>>,    \* BIND
      <<46, 103, 105, 116>>,     \* .git
      <<46, 115, 118, 110>>,     \* .svn
      <<110, 111, 100, 101, 95, 109, 111, 100, 117, 108, 101, 115>>   \* node_modules
    }

DotCs == <<46, 99, 115>>    \* .cs
DotTxt == <<46, 116, 120, 116>>  \* .txt
DotCsv == <<46, 99, 115, 118>>  \* .csv

\* CODE_EXTENSIONS
CODE_EXTENSIONS == {DotCs}

\* A file of a folder: its suffix, whether open and read succeed, and
\* content.split('\n').
CodeFile(ls) == [suffix |-> DotCs, readable |-> TRUE, lines |-> ls]

FileCatalog ==
    {
      \* s = "\u62bd\u5361";
      CodeFile(<<<<115, 32, 61, 32, 34, 25277, 21345, 34, 59>>>>),
      \* /* "\u6ce8\u91ca"   (the comment is left open at the end of the file)
      CodeFile(<<<<47, 42, 32, 34, 27880, 37322, 34>>>>),
      \* t = $"\u7b49\u7ea7{lv}"; s = "\u62bd\u5361";
      \* u = "\u9519\u8bef";
      CodeFile(<<<<116, 32, 61, 32, 36, 34, 31561, 32423, 123, 108, 118, 125, 34, 59, 32, 115, 32, 61, 32, 34, 25277, 21345, 34, 59>>,
                 <<117, 32, 61, 32, 34, 38169, 35823, 34, 59>>>>),
      \* a file open() fails on
      [suffix |-> DotCs, readable |-> FALSE, lines |-> <<>>],
      \* a text file:  n = "\u6587\u672c";
      [suffix |-> DotTxt, readable |-> TRUE,
       lines |-> <<<<110, 32, 61, 32, 34, 25991, 26412, 34, 59>>>>]
    }

MaxFiles == 2

\* The files a walk can meet, in the order os.walk gives them.
FileLists == UNION {[1..n -> FileCatalog] : n \in 0..MaxFiles}

\* The content of code_dir: its folders in the order of sorted(iterdir()),
\* each with the files its walk meets. Battle and Ui hold at most MaxFiles
\* files between them; bind, when it exists, holds one file with a literal.
\* A folder without files stands for a folder that does not exist.
Folder(name, fs) == [name |-> name, files |-> fs]

TreeOf(a, b, c) ==
    SelectSeq(<<Folder(Battle, a), Folder(Ui, b), Folder(Bind, c)>>,
              LAMBDA f : f.files # <<>>)

Trees ==
    {TreeOf(p[1], p[2], c) :
        p \in {q \in FileLists \X FileLists : Len(q[1]) + Len(q[2]) <= MaxFiles},
        c \in {<<>>, <<CodeFile(<<<<110, 32, 61, 32, 34, 25991, 26412, 34, 59>>>>)>>}}

\* file_path.name of the k-th file of a walk.
WalkName(k, f) == <<64 + k>> \o f.suffix

\* `code_dir / args.folder` exists; the index of the folder in the tree.
FolderIndex(t, name) ==
    IF \E k \in 1..Len(t) : t[k].name = name
    THEN CHOOSE k \in 1..Len(t) : t[k].name = name
    ELSE 0

\* The ChineseString entries of a file's line, with the pos of that file.
InFile(rs, name, lineno) ==
    [n \in 1..Len(rs) |-> [value |-> rs[n].value, pos |-> Pos(name, lineno)]]

\* in_multiline_comment when a file's loop starts, were the flag of the
\* extractor kept from one file to the next.
FlagKeptAcrossFiles(flag) == flag

\* in_multiline_comment when a file's loop starts.
FlagAtFirstLine(flag) == FALSE

\* results after `results = strings`, were it written for results.extend.
ReplacedBy(so_far, strs) == strs

\* results after results.extend(strings)
Extend(so_far, strs) == so_far \o strs

\* `if not code_dir.exists()`, were the test left out.
RootAssumed(a) == TRUE

\* code_dir.exists()
RootExists(a) == a.code_dir
\* The rows generate builds without a translator.
RECURSIVE DefaultRows(_, _)
DefaultRows(unique, ctx) ==
    IF unique = <<>> THEN <<>>
    ELSE <<[key |-> EnsurePrefix(_default_key(Head(unique).value, ctx), ctx),
            value |-> Head(unique).value,
            pos |-> Head(unique).pos]>>
             \o DefaultRows(Tail(unique), ctx)

(***************************************************************************)
(* SpecMain: one run of main with no API key configured (the keys a        *)
(* translator gives are the matter of SpecGen and SpecTranslate).          *)
(***************************************************************************)
InitMain ==
    /\ pc = "main"
    /\ args \in [code_dir : BOOLEAN, mode : {"all", "single"},
                 folder : {<<>>, Battle, Bind}]
    /\ tree \in IF args.code_dir THEN Trees ELSE {<<>>}
    /\ item = 0
    /\ file = 0
    /\ scanned = 0
    /\ outputs = <<>>
    /\ lines = NoFile
    /\ i = 0
    /\ in_multiline_comment = FALSE
    /\ results = <<>>
    /\ context = <<>>
    /\ strings = NoStrings
    /\ translator = FALSE
    /\ cache = <<>>
    /\ unique_data = <<>>
    /\ data_rows = <<>>
    /\ text = <<>>
    /\ formatted = <<>>
    /\ found = <<>>
    /\ NoKeyState

\* The variables of the walk and of generate.
walkVars == <<lines, i, in_multiline_comment, results, context, strings,
              unique_data, data_rows, item, file, scanned, outputs>>

\* The variables main never writes.
fixedVars == <<args, tree, translator, cache, text, formatted, found, keyVars>>

\* `if not code_dir.exists(): ... return`
MainNoRoot ==
    /\ pc = "main"
    /\ ~RootExists(args)
    /\ pc' = "returned"
    /\ UNCHANGED <<walkVars, fixedVars>>

\* mode all: up to the loop over sorted(code_dir.iterdir()).
MainAll ==
    /\ pc = "main"
    /\ RootExists(args)
    /\ args.mode = "all"
    /\ pc' = "all"
    /\ UNCHANGED <<walkVars, fixedVars>>

\* mode single, `if not args.folder: ... return`
MainSingleNoFolder ==
    /\ pc = "main"
    /\ RootExists(args)
    /\ args.mode = "single"
    /\ args.folder = <<>>
    /\ pc' = "returned"
    /\ UNCHANGED <<walkVars, fixedVars>>

\* mode single, `if not target_dir.exists(): ... return`
MainSingleNoTarget ==
    /\ pc = "main"
    /\ RootExists(args)
    /\ args.mode = "single"
    /\ args.folder # <<>>
    /\ FolderIndex(tree, args.folder) = 0
    /\ pc' = "returned"
    /\ UNCHANGED <<walkVars, fixedVars>>

\* mode single: extract_from_directory(target_dir) is called.
MainSingle ==
    /\ pc = "main"
    /\ RootExists(args)
    /\ args.mode = "single"
    /\ args.folder # <<>>
    /\ FolderIndex(tree, args.folder) # 0
    /\ pc' = "walk"
    /\ item' = FolderIndex(tree, args.folder)
    /\ context' = args.folder
    /\ file' = 0
    /\ strings' = <<>>
    /\ UNCHANGED <<lines, i, in_multiline_comment, results, unique_data, data_rows,
                   scanned, outputs, fixedVars>>

\* mode all: an item of code_dir whose name is in IGNORE_FOLDERS is passed over.
AllSkip ==
    /\ pc = "all"
    /\ item < Len(tree)
    /\ tree[item + 1].name \in IGNORE_FOLDERS
    /\ item' = item + 1
    /\ UNCHANGED <<pc, lines, i, in_multiline_comment, results, context, strings,
                   unique_data, data_rows, file, scanned, outputs, fixedVars>>

\* mode all: extract_from_directory(item) is called for the next folder.
AllEnter ==
    /\ pc = "all"
    /\ item < Len(tree)
    /\ tree[item + 1].name \notin IGNORE_FOLDERS
    /\ pc' = "walk"
    /\ item' = item + 1
    /\ context' = tree[item + 1].name
    /\ file' = 0
    /\ strings' = <<>>
    /\ unique_data' = <<>>
    /\ data_rows' = <<>>
    /\ UNCHANGED <<lines, i, in_multiline_comment, results, scanned, outputs,
                   fixedVars>>

\* mode all: the loop is over; cache.save()
AllDone ==
    /\ pc = "all"
    /\ item = Len(tree)
    /\ pc' = "done"
    /\ UNCHANGED <<walkVars, fixedVars>>
\* extract_from_directory: a file whose suffix is not in CODE_EXTENSIONS.
WalkSkipFile ==
    /\ pc = "walk"
    /\ file < Len(tree[item].files)
    /\ tree[item].files[file + 1].suffix \notin CODE_EXTENSIONS
    /\ file' = file + 1
    /\ UNCHANGED <<pc, lines, i, in_multiline_comment, results, context, strings,
                   unique_data, data_rows, item, scanned, outputs, fixedVars>>

\* extract_from_file on a file open() or read() fails on: the except branch
\* returns the empty results, which the walk extends its own results with.
WalkUnreadable ==
    /\ pc = "walk"
    /\ file < Len(tree[item].files)
    /\ tree[item].files[file + 1].suffix \in CODE_EXTENSIONS
    /\ ~tree[item].files[file + 1].readable
    /\ file' = file + 1
    /\ scanned' = scanned + 1
    /\ results' = <<>>
    /\ strings' = Extend(strings, <<>>)
    /\ UNCHANGED <<pc, lines, i, in_multiline_comment, context, unique_data,
                   data_rows, item, outputs, fixedVars>>

\* extract_from_file on a readable file, up to its loop.
WalkOpen ==
    /\ pc = "walk"
    /\ file < Len(tree[item].files)
    /\ tree[item].files[file + 1].suffix \in CODE_EXTENSIONS
    /\ tree[item].files[file + 1].readable
    /\ pc' = "scan_file"
    /\ file' = file + 1
    /\ scanned' = scanned + 1
    /\ results' = <<>>
    /\ lines' = tree[item].files[file + 1].lines
    /\ i' = 0
    /\ in_multiline_comment' = FlagAtFirstLine(in_multiline_comment)
    /\ UNCHANGED <<context, strings, unique_data, data_rows, item, outputs,
                   fixedVars>>

\* One pass of `for i, line in enumerate(lines, 1)` on the file of the walk.
WalkScanLine ==
    /\ pc = "scan_file"
    /\ i < Len(lines)
    /\ i' = i + 1
    /\ in_multiline_comment' = CommentFlagAfter(in_multiline_comment, lines[i + 1])
    /\ results' = results
           \o InFile(LineResults(in_multiline_comment, lines[i + 1], i + 1),
                     WalkName(file, tree[item].files[file]), i + 1)
    /\ UNCHANGED <<pc, lines, context, strings, unique_data, data_rows, item, file,
                   scanned, outputs, fixedVars>>

\* `return results` of extract_from_file, and results.extend(strings) of the
\* walk.
WalkFileDone ==
    /\ pc = "scan_file"
    /\ i = Len(lines)
    /\ pc' = "walk"
    /\ strings' = Extend(strings, results)
    /\ UNCHANGED <<lines, i, in_multiline_comment, results, context, unique_data,
                   data_rows, item, file, scanned, outputs, fixedVars>>

\* The walk returned nothing: mode all prints and goes on, and in mode single
\* generate returns at `if not strings`.
WalkDoneEmpty ==
    /\ pc = "walk"
    /\ file = Len(tree[item].files)
    /\ strings = <<>>
    /\ pc' = IF args.mode = "all" THEN "all" ELSE "done"
    /\ UNCHANGED <<walkVars, fixedVars>>

\* The walk returned strings: generate writes the table <folder>.csv.
WalkDoneGenerate ==
    /\ pc = "walk"
    /\ file = Len(tree[item].files)
    /\ strings # <<>>
    /\ unique_data' = Dedup(<<>>, strings)
    /\ data_rows' = DefaultRows(Dedup(<<>>, strings), context)
    /\ outputs' = Append(outputs,
           [name |-> context \o DotCsv,
            rows |-> DefaultRows(Dedup(<<>>, strings), context)])
    /\ pc' = IF args.mode = "all" THEN "all" ELSE "done"
    /\ UNCHANGED <<lines, i, in_multiline_comment, results, context, strings, item,
                   file, scanned, fixedVars>>

NextMain ==
    \/ MainNoRoot
    \/ MainAll
    \/ MainSingleNoFolder
    \/ MainSingleNoTarget
    \/ MainSingle
    \/ AllSkip
    \/ AllEnter
    \/ AllDone
    \/ WalkSkipFile
    \/ WalkUnreadable
    \/ WalkOpen
    \/ WalkScanLine
    \/ WalkFileDone
    \/ WalkDoneEmpty
    \/ WalkDoneGenerate

SpecMain == InitMain /\ [][NextMain]_vars

(***************************************************************************)
(* Claims on main and extract_from_directory.                              *)
(***************************************************************************)
\* The values of the records of rs whose pos is p, in order.
RECURSIVE ValuesWithPos(_, _)
ValuesWithPos(rs, p) ==
    IF rs = <<>> THEN <<>>
    ELSE (IF Head(rs).pos = p THEN <<Head(rs).value>> ELSE <<>>)
             \o ValuesWithPos(Tail(rs), p)

\* The k-th file of the walk is a code file that was read.
WasRead(k) ==
    /\ tree[item].files[k].suffix = DotCs
    /\ tree[item].files[k].readable

\* The k-th file of the walk was read and its last line holds a `/*` and no
\* `*/`: its block comment is open where the file ends.
LeftOpen(k) ==
    /\ WasRead(k)
    /\ LET ls == tree[item].files[k].lines
       IN  /\ Contains(ls[Len(ls)], OpenComment)
           /\ ~Contains(ls[Len(ls)], CloseComment)

\* The first line of the k-th file of the walk is a line of code: it neither
\* opens nor closes a block comment and is not a bracketed declaration.
StartsWithCode(k) ==
    /\ WasRead(k)
    /\ LET first == tree[item].files[k].lines[1]
       IN  /\ ~Contains(first, OpenComment)
           /\ ~Contains(first, CloseComment)
           /\ ~_is_attribute_line(first)

\* C15: the block-comment flag is false where the loop over the lines of a
\* file starts, for every file of the walk; a file that follows one whose block
\* comment was left open has the literals of its first line of code recorded.
C15_FlagResetPerFile ==
    /\ (pc = "scan_file" /\ i = 0) => in_multiline_comment = FALSE
    /\ pc = "walk" =>
           \A k \in 2..file :
               (LeftOpen(k - 1) /\ StartsWithCode(k)) =>
                   ValuesWithPos(strings, Pos(WalkName(k, tree[item].files[k]), 1))
                       = Normalised(_find_chinese_strings(tree[item].files[k].lines[1]))

\* A file ended inside a block comment, and the literal on the first line of
\* the file after it is among the records of the walk.
C15_Witness ==
    /\ pc = "walk"
    /\ \E k \in 2..file :
           /\ LeftOpen(k - 1)
           /\ StartsWithCode(k)
           /\ \E v \in Range(ValuesWithPos(strings,
                                 Pos(WalkName(k, tree[item].files[k]), 1))) :
                  _has_chinese(v)

\* The file and line of the walk a pos names.
Place(p) ==
    CHOOSE fl \in UNION {{<<k, l>> : l \in 1..Len(tree[item].files[k].lines)} :
                             k \in 1..Len(tree[item].files)} :
        Pos(WalkName(fl[1], tree[item].files[fl[1]]), fl[2]) = p

\* C16: the records a walk returns stand in the order of the walk, then of
\* the lines, then of the candidates of a line; and the rows of the folder's
\* table stand in the order in which their values first occur among them.
C16_FirstInsertionOrder ==
    /\ pc = "walk" =>
           /\ \A a \in 1..Len(strings), b \in 1..Len(strings) :
                  a < b =>
                      \/ Place(strings[a].pos)[1] < Place(strings[b].pos)[1]
                      \/ /\ Place(strings[a].pos)[1] = Place(strings[b].pos)[1]
                         /\ Place(strings[a].pos)[2] <= Place(strings[b].pos)[2]
           /\ \A k \in 1..file : \A l \in 1..Len(tree[item].files[k].lines) :
                  ValuesWithPos(strings, Pos(WalkName(k, tree[item].files[k]), l))
                      \in {<<>>, Normalised(_find_chinese_strings(
                                                tree[item].files[k].lines[l]))}
    /\ \A n \in 1..Len(data_rows), o \in 1..Len(data_rows) :
           n < o => FirstWith(data_rows[n].value) < FirstWith(data_rows[o].value)

\* A value occurs in two files of the walk and another value first occurs
\* between its occurrences; the row of the first stands before the row of the
\* second.
C16_Witness ==
    /\ pc = "done"
    /\ \E a \in 1..Len(strings), b \in 1..Len(strings), c \in 1..Len(strings) :
           /\ a < b /\ b < c
           /\ strings[a].value = strings[c].value
           /\ strings[a].value # strings[b].value
           /\ strings[a].pos # strings[c].pos
           /\ \E n \in 1..Len(data_rows), o \in 1..Len(data_rows) :
                  /\ n < o
                  /\ data_rows[n].value = strings[a].value
                  /\ data_rows[o].value = strings[b].value
                  /\ outputs[Len(outputs)].rows = data_rows

\* The records extract_from_file returns for the lines of a file from line n
\* on, the block-comment flag being flag before line n.
RECURSIVE ScanFrom(_, _, _, _)
ScanFrom(name, ls, n, flag) ==
    IF n > Len(ls) THEN <<>>
    ELSE InFile(LineResults(flag, ls[n], n), name, n)
             \o ScanFrom(name, ls, n + 1, CommentFlagAfter(flag, ls[n]))

\* The records of rs found in the k-th file of the walk.
RecordsOfFile(rs, k) ==
    SelectSeq(rs, LAMBDA r :
        StartsWith(r.pos, WalkName(k, tree[item].files[k]) \o <<45, 45, 45>>))

\* The k-th file of the walk is a code file that open() or read() fails on.
Unreadable(k) ==
    /\ tree[item].files[k].suffix = DotCs
    /\ ~tree[item].files[k].readable

\* C17: a file of the walk that cannot be opened or read contributes no
\* record and does not end the walk: the records the walk has gathered hold,
\* for every file read before or after it, the records of that file.
C17_UnreadableFileSkipped ==
    pc = "walk" =>
        \A k \in 1..file :
            /\ Unreadable(k) => RecordsOfFile(strings, k) = <<>>
            /\ WasRead(k) =>
                   RecordsOfFile(strings, k)
                       = ScanFrom(WalkName(k, tree[item].files[k]),
                                  tree[item].files[k].lines, 1, FALSE)

\* The walk met a file it could not read and then a file with a literal, whose
\* record it returned.
C17_Witness ==
    /\ pc = "walk"
    /\ file = Len(tree[item].files)
    /\ \E k \in 1..file, j \in 1..file :
           /\ k < j
           /\ Unreadable(k)
           /\ WasRead(j)
           /\ RecordsOfFile(strings, j) # <<>>
    /\ scanned = file

\* The code root does not exist, or the mode is single and the folder argument
\* is missing or names no folder of the code root.
NothingToScan ==
    \/ ~args.code_dir
    \/ /\ args.mode = "single"
       /\ \/ args.folder = <<>>
          \/ \A k \in 1..Len(tree) : tree[k].name # args.folder

\* C18: when the code root does not exist, or the mode is single and the
\* folder is missing or does not exist, main returns before any call of
\* extract_from_file and writes no table.
C18_ReturnsWithoutScanning ==
    NothingToScan =>
        /\ pc \in {"main", "returned"}
        /\ scanned = 0
        /\ outputs = <<>>

\* main returned for a folder that does not exist, in a code root whose other
\* folder holds a file with a literal.
C18_Witness ==
    /\ pc = "returned"
    /\ args.code_dir
    /\ args.mode = "single"
    /\ args.folder = Bind
    /\ \E k \in 1..Len(tree) :
           /\ tree[k].name = Battle
           /\ \E n \in 1..Len(tree[k].files) :
                  /\ tree[k].files[n].suffix = DotCs
                  /\ tree[k].files[n].readable
                  /\ \E l \in 1..Len(tree[k].files[n].lines) :
                         _has_chinese(tree[k].files[n].lines[l])
    /\ scanned = 0
    /\ outputs = <<>>

(***************************************************************************)
(* SpecComment: _remove_comment applied to a line.                         *)
(***************************************************************************)
MaxCommentParts == 4

CommentParts ==
    {
      <<47, 47>>,   \* //
      <<47>>,       \* /
      <<34>>,       \* "
      <<39>>,       \* '
      <<92>>,       \* \
      <<97>>        \* a
    }

InitComment ==
    /\ pc = "line"
    /\ text \in Concats(CommentParts, MaxCommentParts)
    /\ code_part = <<>>
    /\ result_key = <<>>
    /\ calls = <<>>
    /\ formatted = <<>>
    /\ found = <<>>
    /\ lines = NoFile
    /\ i = 0
    /\ in_multiline_comment = FALSE
    /\ results = <<>>
    /\ context = <<>>
    /\ strings = NoStrings
    /\ translator = FALSE
    /\ cache = <<>>
    /\ unique_data = <<>>
    /\ data_rows = <<>>
    /\ NoMainState

\* line = self._remove_comment(line)
RemoveComment ==
    /\ pc = "line"
    /\ code_part' = _remove_comment(text)
    /\ pc' = "removed"
    /\ UNCHANGED <<text, result_key, calls, formatted, found, lines, i,
                   in_multiline_comment, results, context, strings, translator,
                   cache, unique_data, data_rows, mainVars>>

NextComment == RemoveComment

SpecComment == InitComment /\ [][NextComment]_vars

(***************************************************************************)
(* Claims on _remove_comment.                                              *)
(***************************************************************************)
\* The index of the first slash of the first `//` of s that stands outside a
\* quoted string, 0 when there is none; read from index n on, quote being the
\* character that opened the string n stands in, 0 outside a string. A quote
\* preceded by a backslash does not close the string.
RECURSIVE CommentStart(_, _, _)
CommentStart(s, n, quote) ==
    IF n > Len(s) THEN 0
    ELSE IF quote = 0
    THEN IF s[n] = Quote \/ s[n] = Apostrophe THEN CommentStart(s, n + 1, s[n])
         ELSE IF s[n] = Slash /\ n < Len(s) /\ s[n + 1] = Slash THEN n
         ELSE CommentStart(s, n + 1, 0)
    ELSE IF s[n] = quote /\ s[n - 1] # Backslash THEN CommentStart(s, n + 1, 0)
         ELSE CommentStart(s, n + 1, quote)

\* C19: _remove_comment returns the part of the line before the first `//`
\* outside a quoted string, neither slash kept, and the line as it is when
\* there is no such `//`; a quote preceded by a backslash does not close the
\* string it stands in.
C19_CodePartOnly ==
    pc = "removed" =>
        code_part = IF CommentStart(text, 1, 0) = 0 THEN text
                    ELSE SubSeq(text, 1, CommentStart(text, 1, 0) - 1)

(***************************************************************************)
(* Claims on comments within extract_from_file.                            *)
(***************************************************************************)
\* The part of a line before its first `//` outside a quoted string; the line
\* when it has none.
CodePart(s) ==
    IF CommentStart(s, 1, 0) = 0 THEN s
    ELSE SubSeq(s, 1, CommentStart(s, 1, 0) - 1)

\* C21: only the literals of the code part of a line are recorded: every
\* value recorded for a line is a literal found before the line's first `//`
\* outside a string, so a literal standing only after it leaves no record.
C21_CommentLiteralNotRecorded ==
    \A k \in 1..i :
        Range(ValuesAt(results, k))
            \subseteq Range(Normalised(_find_chinese_strings(CodePart(lines[k]))))

\* The character that opened the quoted string index p of s stands in, 0 when
\* index p stands outside a string; read from index n on, quote being that
\* character at index n.
RECURSIVE QuoteAt(_, _, _, _)
QuoteAt(s, n, quote, p) ==
    IF n >= p THEN quote
    ELSE IF quote = 0
    THEN IF s[n] = Quote \/ s[n] = Apostrophe THEN QuoteAt(s, n + 1, s[n], p)
         ELSE QuoteAt(s, n + 1, 0, p)
    ELSE IF s[n] = quote /\ s[n - 1] # Backslash THEN QuoteAt(s, n + 1, 0, p)
         ELSE QuoteAt(s, n + 1, quote, p)

\* A `/*` of the line stands in code position: outside a quoted string and
\* before the line comment.
OpensInCode(s) ==
    \E p \in 1..(Len(s) - 1) :
        /\ s[p] = Slash
        /\ s[p + 1] = Star
        /\ QuoteAt(s, 1, 0, p) = 0
        /\ CommentStart(s, 1, 0) = 0 \/ p < CommentStart(s, 1, 0)

\* Line k holds a `/*`, none of them in code position, and no `*/`; no line
\* before it holds a `/*`.
OpensOnlyInTextOrComment(k) ==
    /\ Contains(lines[k], OpenComment)
    /\ ~OpensInCode(lines[k])
    /\ ~Contains(lines[k], CloseComment)
    /\ \A j \in 1..(k - 1) : ~Contains(lines[j], OpenComment)

\* C22: a line whose only `/*` stands inside a quoted string or after a `//`
\* does not turn the block-comment flag on, and the literals of the line of
\* code after it are recorded.
C22_FlagSetInCodeOnly ==
    /\ (i >= 1 /\ OpensOnlyInTextOrComment(i)) => in_multiline_comment = FALSE
    /\ \A k \in 2..i :
           (/\ OpensOnlyInTextOrComment(k - 1)
            /\ ~Contains(lines[k], OpenComment)
            /\ ~Contains(lines[k], CloseComment)
            /\ ~_is_attribute_line(lines[k])
            /\ CommentStart(lines[k], 1, 0) = 0)
           => ValuesAt(results, k) = Normalised(_find_chinese_strings(lines[k]))

(***************************************************************************)
(* Further claims on _format_string and on the keys of a table.            *)
(***************************************************************************)
\* C23: a text with n spans `{...}` is formatted to a text with exactly n
\* spans, which are {0}, ..., {n-1}, each occurring once, in some order; also
\* when the text already holds numbered placeholders.
C23_NumberedOnceEach ==
    pc = "formatted" =>
        /\ Len(ParamFindAll(formatted)) = Len(ParamFindAll(text))
        /\ \A k \in 0..(Len(ParamFindAll(text)) - 1) :
               Occurrences(ParamFindAll(formatted), Numbered(k)) = 1

\* A text of three spans that held numbered placeholders already was
\* formatted, and its spans do not stand in the order {0}, {1}, {2}.
C23_Witness ==
    /\ pc = "formatted"
    /\ Len(ParamFindAll(text)) = 3
    /\ \E k \in 1..3 : ParamFindAll(text)[k] \in {Numbered(0), Numbered(1)}
    /\ ParamFindAll(formatted) # <<Numbered(0), Numbered(1), Numbered(2)>>

\* C24: in a table built without a translator (every key is the default
\* key), two rows with different values never carry the same key.
C24_DistinctValuesDistinctKeys ==
    (pc = "written" /\ ~translator) =>
        \A n, o \in 1..Len(data_rows) :
            data_rows[n].value # data_rows[o].value
                => data_rows[n].key # data_rows[o].key

====
